---- MODULE Spec2Model ----
(***************************************************************************)
(* Model of the data orchestration core of Investment_App's DataModule:    *)
(* DataService.get_stock_data (cache-aside lookup, rate-limit gated source *)
(* fallback, quality assessment, quality-adjusted cache write) together    *)
(* with the parts of CacheService, APIRateLimit and DataQualityService it  *)
(* calls.  One get_stock_data call is a sequence of steps, one per         *)
(* suspension point of the coroutine.                                      *)
(*                                                                         *)
(* Time is in seconds.  Quality scores are in hundredths of a point        *)
(* (the code rounds them to two decimals), so 9000 stands for 90.00.       *)
(***************************************************************************)
EXTENDS Integers, Sequences, FiniteSets, TLC

VARIABLES
    now,                        \* datetime.now(), seconds
    enable_caching,             \* DataService.enable_caching
    enable_quality_assessment,  \* DataService.enable_quality_assessment
    rate_limits,                \* DataService.rate_limits: source -> APIRateLimit
    metrics,                    \* DataService.metrics
    redis,                      \* the cache backend: full key -> entry or None
    cache_stats,                \* CacheService.stats
    pc,                         \* position of the get_stock_data coroutine
    symbol,                     \* local: symbol (after upper())
    force_refresh,              \* argument
    preferred_source,           \* argument
    sources_to_try,             \* local
    idx,                        \* position of the for loop in sources_to_try
    source,                     \* local: loop variable
    stock_data,                 \* local
    result,                     \* value returned by the call
    calls,                      \* number of calls started
    ticks,                      \* number of clock steps taken
    written,                    \* history: full key -> the object whose bytes the key holds
    trace,                      \* history: what the current call did, in order
    pre,                        \* history: the service's state when the call began
    batch_pc,                   \* position of the batch_get_stock_data coroutine
    symbols,                    \* batch argument: the requested symbols, in order
    max_concurrent,             \* batch argument
    semaphore,                  \* batch local: free slots of asyncio.Semaphore
    tasks,                      \* batch local: the get_single_stock tasks, in order
    stock_data_map,             \* value returned by the batch call
    ops,                        \* concurrent callers: caller -> operation and position
    attempts,                   \* history: source -> fetches admitted in its window
    last_check,                 \* history: source -> the latest _check_rate_limit
    cache_log,                  \* history: the direct CacheService calls, in order
    assessed,                   \* what the assessor reads off the record it is given
    quality_report,             \* what the assessor returned for it
    quality_issues,             \* the kinds of issue the returned report lists
    priced,                     \* the price points the assessed record was built from
    applied,                    \* history: calls of operations that keep no state, with what they returned
    health_pc,                  \* get_service_health: where the call stands
    health_status,              \* get_service_health: its health_status dict
    request_timestamps,         \* AlphaVantageClient.request_timestamps
    session,                    \* AlphaVantageClient.session: 0 for None, or a session
    sessions,                   \* history: the sessions created, each open or closed
    alpha_ops,                  \* the operations that use the Alpha Vantage client
    sent                        \* history: the calls of session.get, in order

service_vars == <<now, enable_caching, enable_quality_assessment, rate_limits, metrics,
                  redis, cache_stats, pc, symbol, force_refresh, preferred_source,
                  sources_to_try, idx, source, stock_data, result, calls, ticks,
                  written, trace, pre>>

batch_vars == <<batch_pc, symbols, max_concurrent, semaphore, tasks, stock_data_map>>

(* What a get_stock_data step leaves alone *)
rate_vars == <<ops, attempts, last_check>>

quality_vars == <<assessed, quality_report, quality_issues, priced>>

probe_vars == <<applied, health_pc, health_status>>

alpha_vars == <<request_timestamps, session, sessions, alpha_ops, sent>>

other_vars == <<batch_vars, rate_vars, cache_log, quality_vars, probe_vars, alpha_vars>>

vars == <<service_vars, other_vars>>

----------------------------------------------------------------------------
(* Bounds of the model *)

MaxCalls == 1
MaxTicks == 1

(* Program constants *)

YahooRequestsLimit == 2000
AlphaRequestsLimit == 500
YahooPeriod == 3600
AlphaPeriod == 86400
compression_threshold == 1024
default_ttl == 900

(* One step of the clock *)
TickStep == default_ttl

----------------------------------------------------------------------------
(* Values *)

None == [kind |-> "None"]
NoSource == "None"

YAHOO_FINANCE == "yahoo_finance"
ALPHA_VANTAGE == "alpha_vantage"
MANUAL == "manual"
DataSource == {YAHOO_FINANCE, ALPHA_VANTAGE, MANUAL}
RateLimited == {YAHOO_FINANCE, ALPHA_VANTAGE}

data_source_priority == <<YAHOO_FINANCE, ALPHA_VANTAGE>>

Symbols == {"aapl", "MSFT"}

upper(s) == IF s = "aapl" THEN "AAPL" ELSE s

Decimal(v) == [kind |-> "Decimal", v |-> v]
DateTime(t) == [kind |-> "datetime", v |-> t]
Str(v) == [kind |-> "str", v |-> v]

requests_limit(src) == IF src = YAHOO_FINANCE THEN YahooRequestsLimit ELSE AlphaRequestsLimit

is_limit_exceeded_strict(rate_limit) == rate_limit.requests_made > rate_limit.requests_limit

is_limit_exceeded(rate_limit) == rate_limit.requests_made >= rate_limit.requests_limit

APIRateLimit(src, made, reset) ==
    [requests_made |-> made, requests_limit |-> requests_limit(src), reset_time |-> reset]

truthy_model_objects(v) == v.kind \notin {"None", "dict"}

truthy_nonempty(v) ==
    /\ v.kind # "None"
    /\ v.kind = "StockData" =>
          \/ v.company_info.kind # "None"
          \/ v.current_price.kind # "None"
          \/ v.historical_prices # <<>>
          \/ v.financial_statements # <<>>

(* Python truthiness of the values get_stock_data tests with "if x:": None is
   false, a model object is true whatever its fields hold, a dict is true
   unless it has no keys (the dicts here always have keys). *)
truthy(v) == v.kind # "None"

----------------------------------------------------------------------------
(* Records built by the provider adapters *)

CompanyInfo(sym) == [kind |-> "CompanyInfo", symbol |-> sym]

StockPrice(sym, t) == [kind |-> "StockPrice", symbol |-> sym, date |-> DateTime(t)]

FinancialStatement(sym, src) ==
    [kind |-> "FinancialStatement", symbol |-> sym, data_source |-> src]

StockData(sym, company_info, current_price, historical_prices, financial_statements, t) ==
    [kind |-> "StockData",
     symbol |-> sym,
     company_info |-> company_info,
     current_price |-> current_price,
     historical_prices |-> historical_prices,
     financial_statements |-> financial_statements,
     data_quality |-> None,
     last_updated |-> DateTime(t)]

(* What the upstream did during one full-record fetch:
   "record": the sub-fetches delivered data;
   "empty":  every sub-fetch failed or found nothing (each one is caught and
             turned into None / []), so the record holds only the symbol;
   "none":   the adapter's own handler caught a failure and returned None;
   "raise":  an exception left the adapter call (only the Alpha Vantage
             context manager entry/exit runs outside the adapter's handler). *)
ClientOutcomes(src) ==
    IF src = YAHOO_FINANCE THEN {"record", "empty", "none"}
    ELSE {"record", "empty", "none", "raise"}

EmptyStockData(sym, t) == StockData(sym, None, None, <<>>, <<>>, t)

FullStockData(sym, src, t) ==
    StockData(sym, CompanyInfo(sym), StockPrice(sym, t), <<StockPrice(sym, t)>>,
              <<FinancialStatement(sym, src)>>, t)

(* YahooFinanceClient.get_stock_data *)
yahoo_get_stock_data(sym, outcome, t) ==
    CASE outcome = "record" -> [raised |-> FALSE, value |-> FullStockData(upper(sym), YAHOO_FINANCE, t)]
      [] outcome = "empty"  -> [raised |-> FALSE, value |-> EmptyStockData(upper(sym), t)]
      [] OTHER              -> [raised |-> FALSE, value |-> None]

(* "async with alpha_vantage_client as client: client.get_comprehensive_data" *)
alpha_get_comprehensive_data(sym, outcome, t) ==
    CASE outcome = "record" -> [raised |-> FALSE, value |-> FullStockData(upper(sym), ALPHA_VANTAGE, t)]
      [] outcome = "empty"  -> [raised |-> FALSE, value |-> EmptyStockData(upper(sym), t)]
      [] outcome = "none"   -> [raised |-> FALSE, value |-> None]
      [] OTHER              -> [raised |-> TRUE, value |-> None]

get_data_placeholder(r) ==
    IF r.raised THEN [raised |-> FALSE, value |-> EmptyStockData("", 0)] ELSE r

(* DataService._get_data_from_yahoo / _get_data_from_alpha_vantage, after the
   counter update: "except Exception: return None" *)
get_data_swallowing(r) == IF r.raised THEN [raised |-> FALSE, value |-> None] ELSE r

_get_data_from_yahoo(sym, outcome, t) ==
    get_data_swallowing(yahoo_get_stock_data(sym, outcome, t))

_get_data_from_alpha_vantage(sym, outcome, t) ==
    get_data_swallowing(alpha_get_comprehensive_data(sym, outcome, t))

----------------------------------------------------------------------------
(* Rate limiter *)

period(src) == IF src = ALPHA_VANTAGE THEN AlphaPeriod ELSE YahooPeriod

check_rate_limit_counting(rl, src, t) ==
    IF src \notin DOMAIN rl
    THEN [rate_limits |-> rl, allowed |-> TRUE]
    ELSE LET after == IF t > rl[src].reset_time
                      THEN [rl EXCEPT ![src].requests_made = 0,
                                      ![src].reset_time = t + period(src)]
                      ELSE rl
         IN  [rate_limits |-> [after EXCEPT ![src].requests_made = @ + 1],
              allowed |-> ~is_limit_exceeded(after[src])]

check_rate_limit_at_reset(rl, src, t) ==
    IF src \notin DOMAIN rl
    THEN [rate_limits |-> rl, allowed |-> TRUE]
    ELSE LET after == IF t >= rl[src].reset_time
                      THEN [rl EXCEPT ![src].requests_made = 0,
                                      ![src].reset_time = t + period(src)]
                      ELSE rl
         IN  [rate_limits |-> after, allowed |-> ~is_limit_exceeded(after[src])]

(* DataService._check_rate_limit: the budgets after the check, and its answer *)
_check_rate_limit(rl, src, t) ==
    IF src \notin DOMAIN rl
    THEN [rate_limits |-> rl, allowed |-> TRUE]
    ELSE LET after == IF t > rl[src].reset_time
                      THEN [rl EXCEPT ![src].requests_made = 0,
                                      ![src].reset_time = t + period(src)]
                      ELSE rl
         IN  [rate_limits |-> after, allowed |-> ~is_limit_exceeded(after[src])]

(* DataService._update_rate_limit *)
_update_rate_limit(rl, src) ==
    IF src \in DOMAIN rl THEN [rl EXCEPT ![src].requests_made = @ + 1] ELSE rl

----------------------------------------------------------------------------
(* Cache store *)

key_prefix(data_type) ==
    CASE data_type = "stock_data" -> "stock:"
      [] data_type = "market_data" -> "market:"
      [] data_type = "search_results" -> "search:"
      [] OTHER -> "misc:"

(* CacheService._build_key: prefix and key, kept as a pair *)
_build_key(key, data_type) == <<key_prefix(data_type), key>>

FullKeys == {_build_key(upper(s), "stock_data") : s \in Symbols}

(* json.dumps(..., default=str) of one value, read back by json.loads: a
   model object has become a dict (by .dict()), a Decimal or a datetime the
   string str() gives, a list stays a list. *)
RECURSIVE to_json(_)
to_json(x) ==
    CASE x.kind \in {"Decimal", "datetime"} -> Str(x.v)
      [] x.kind \in {"None", "str"} -> x
      [] x.kind \in {"CompanyInfo"} -> [kind |-> "dict", symbol |-> x.symbol]
      [] x.kind = "StockPrice" ->
            [kind |-> "dict", symbol |-> x.symbol, date |-> to_json(x.date)]
      [] x.kind = "FinancialStatement" ->
            [kind |-> "dict", symbol |-> x.symbol, data_source |-> x.data_source]
      [] x.kind = "DataQualityMetrics" ->
            [kind |-> "dict", symbol |-> x.symbol, data_source |-> x.data_source,
             quality_score |-> to_json(x.quality_score), issues |-> x.issues]
      [] x.kind = "StockData" ->
            [kind |-> "dict",
             symbol |-> x.symbol,
             company_info |-> to_json(x.company_info),
             current_price |-> to_json(x.current_price),
             historical_prices |->
                 [i \in DOMAIN x.historical_prices |-> to_json(x.historical_prices[i])],
             financial_statements |->
                 [i \in DOMAIN x.financial_statements |-> to_json(x.financial_statements[i])],
             data_quality |-> to_json(x.data_quality),
             last_updated |-> to_json(x.last_updated)]
      [] OTHER -> x

(* Byte lengths the JSON text of a record may have *)
PayloadSizes == {1024, 1025}

(* CacheService._serialize: the stored bytes, as the marker and the text *)
_serialize(data, size) ==
    [compressed |-> size > compression_threshold, json |-> to_json(data)]

deserialize_marker_kept(payload) ==
    IF payload.compressed THEN [kind |-> "undecodable"] ELSE payload.json

(* CacheService._deserialize *)
_deserialize(payload) == payload.json

(* Bytes that do not decode: after the "COMPRESSED:" marker something zlib
   rejects, or without the marker something that is neither JSON nor a pickle *)
Undecodable(compressed) == [compressed |-> compressed, json |-> [kind |-> "undecodable"]]

(* Whether CacheService._deserialize raises on the bytes (lines 530-532) *)
deserialize_raises(payload) == payload.json.kind = "undecodable"

(* The backend's GET: an entry is gone once its TTL has run out *)
redis_get(store, full_key, t) ==
    IF store[full_key].kind = "None" \/ t >= store[full_key].expires_at
    THEN None
    ELSE store[full_key]

cache_get_hit_first(store, stats, key, data_type, up, t) ==
    IF ~up
    THEN [value |-> None, stats |-> [stats EXCEPT !.errors = @ + 1], outcome |-> "error"]
    ELSE LET cached_data == redis_get(store, _build_key(key, data_type), t)
         IN  IF cached_data.kind = "None"
             THEN [value |-> None, stats |-> [stats EXCEPT !.misses = @ + 1],
                   outcome |-> "miss"]
             ELSE IF deserialize_raises(cached_data.payload)
             THEN [value |-> None,
                   stats |-> [stats EXCEPT !.hits = @ + 1, !.errors = @ + 1],
                   outcome |-> "error"]
             ELSE [value |-> _deserialize(cached_data.payload),
                   stats |-> [stats EXCEPT !.hits = @ + 1], outcome |-> "hit"]

cache_get_error_value(store, stats, key, data_type, up, t) ==
    IF ~up
    THEN [value |-> [kind |-> "dict", error |-> "connection refused"],
          stats |-> [stats EXCEPT !.errors = @ + 1], outcome |-> "error"]
    ELSE LET cached_data == redis_get(store, _build_key(key, data_type), t)
         IN  IF cached_data.kind = "None"
             THEN [value |-> None, stats |-> [stats EXCEPT !.misses = @ + 1],
                   outcome |-> "miss"]
             ELSE [value |-> _deserialize(cached_data.payload),
                   stats |-> [stats EXCEPT !.hits = @ + 1], outcome |-> "hit"]

(* CacheService.get.  up = FALSE: the backend refuses the connection or every
   attempt of the operation.  A failure to decode leaves the retry loop (it is
   no ConnectionError) and ends in the outer handler. *)
CacheService_get(store, stats, key, data_type, up, t) ==
    IF ~up
    THEN [value |-> None, stats |-> [stats EXCEPT !.errors = @ + 1], outcome |-> "error"]
    ELSE LET cached_data == redis_get(store, _build_key(key, data_type), t)
         IN  IF cached_data.kind = "None"
             THEN [value |-> None, stats |-> [stats EXCEPT !.misses = @ + 1],
                   outcome |-> "miss"]
             ELSE IF deserialize_raises(cached_data.payload)
             THEN [value |-> None, stats |-> [stats EXCEPT !.errors = @ + 1],
                   outcome |-> "error"]
             ELSE [value |-> _deserialize(cached_data.payload),
                   stats |-> [stats EXCEPT !.hits = @ + 1], outcome |-> "hit"]

cache_set_default_ttl(store, stats, key, data, ttl, data_type, up, size, t) ==
    IF ~up
    THEN [redis |-> store, stats |-> [stats EXCEPT !.errors = @ + 1], ok |-> FALSE]
    ELSE LET full_key == _build_key(key, data_type)
         IN  [redis |-> [store EXCEPT ![full_key] =
                            [kind |-> "entry", payload |-> _serialize(data, size),
                             expires_at |-> t + default_ttl]],
              stats |-> [stats EXCEPT !.sets = @ + 1], ok |-> TRUE]

cache_set_keeping_entry(store, stats, key, data, ttl, data_type, up, size, t) ==
    IF ~up
    THEN [redis |-> store, stats |-> [stats EXCEPT !.errors = @ + 1], ok |-> FALSE]
    ELSE LET full_key == _build_key(key, data_type)
             ttl_used == IF ttl = 0 THEN default_ttl ELSE ttl
         IN  IF redis_get(store, full_key, t).kind # "None"
             THEN [redis |-> store, stats |-> [stats EXCEPT !.sets = @ + 1], ok |-> TRUE]
             ELSE [redis |-> [store EXCEPT ![full_key] =
                                [kind |-> "entry", payload |-> _serialize(data, size),
                                 expires_at |-> t + ttl_used]],
                   stats |-> [stats EXCEPT !.sets = @ + 1], ok |-> TRUE]

(* CacheService.set *)
CacheService_set(store, stats, key, data, ttl, data_type, up, size, t) ==
    IF ~up
    THEN [redis |-> store, stats |-> [stats EXCEPT !.errors = @ + 1], ok |-> FALSE]
    ELSE LET full_key == _build_key(key, data_type)
             ttl_used == IF ttl = 0 THEN default_ttl ELSE ttl
         IN  [redis |-> [store EXCEPT ![full_key] =
                            [kind |-> "entry", payload |-> _serialize(data, size),
                             expires_at |-> t + ttl_used]],
              stats |-> [stats EXCEPT !.sets = @ + 1], ok |-> TRUE]

----------------------------------------------------------------------------
(* Quality assessment *)

QualityScores == {6000, 7500, 9000}

(* What an assessment can come to: an overall score, or a failure inside it *)
AssessOutcomes ==
    [failed : {FALSE}, score : QualityScores] \cup {[failed |-> TRUE, score |-> 0]}

DataQualityMetrics(sym, src, score, issues) ==
    [kind |-> "DataQualityMetrics", symbol |-> sym, data_source |-> src,
     quality_score |-> Decimal(score), issues |-> issues]

assess_raising(data, src, outcome) ==
    IF outcome.failed
    THEN [raised |-> TRUE, value |-> None]
    ELSE [raised |-> FALSE,
          value |-> DataQualityMetrics(data.symbol, src, outcome.score, <<>>)]

(* DataQualityService.assess_stock_data_quality: its own handler turns a
   failure into the default report with all scores 0 *)
assess_stock_data_quality(data, src, outcome) ==
    IF outcome.failed
    THEN [raised |-> FALSE,
          value |-> DataQualityMetrics(data.symbol, src, 0, <<"Assessment failed">>)]
    ELSE [raised |-> FALSE,
          value |-> DataQualityMetrics(data.symbol, src, outcome.score, <<>>)]

determine_cache_ttl_strict(data) ==
    LET base_ttl == 900
    IN  IF data.data_quality.kind # "None"
        THEN LET quality_score == data.data_quality.quality_score.v
             IN  IF quality_score > 9000 THEN base_ttl * 2
                 ELSE IF quality_score > 7500 THEN base_ttl
                 ELSE IF quality_score > 6000 THEN base_ttl \div 2
                 ELSE base_ttl \div 4
        ELSE base_ttl

(* DataService._determine_cache_ttl *)
_determine_cache_ttl(data) ==
    LET base_ttl == 900
    IN  IF truthy(data.data_quality)
        THEN LET quality_score == data.data_quality.quality_score.v
             IN  IF quality_score >= 9000 THEN base_ttl * 2
                 ELSE IF quality_score >= 7500 THEN base_ttl
                 ELSE IF quality_score >= 6000 THEN base_ttl \div 2
                 ELSE base_ttl \div 4
        ELSE base_ttl

----------------------------------------------------------------------------
(* State *)

(* One entry of the history of a call: what happened, for which source, how it
   came out, a number that goes with it (a score, a TTL) and when *)
Event(ev, src, outcome, arg) ==
    [ev |-> ev, source |-> src, outcome |-> outcome, arg |-> arg, at |-> now]

ZeroMetrics ==
    [requests_made |-> 0, cache_hits |-> 0, cache_misses |-> 0, api_errors |-> 0,
     quality_assessments |-> 0]

ZeroStats == [hits |-> 0, misses |-> 0, sets |-> 0, deletes |-> 0, errors |-> 0]

(* Budgets the service can hold some time after its construction: each source
   one request short of its limit or used up (the primary is used up whenever
   the fallback is), the primary's window ending before the fallback's *)
InitialRateLimits ==
    {[src \in RateLimited |->
         APIRateLimit(src, requests_limit(src) - left[src],
                      IF src = YAHOO_FINANCE THEN 450 ELSE 1350)] :
     left \in {l \in [RateLimited -> {0, 1}] : l[ALPHA_VANTAGE] = 0 => l[YAHOO_FINANCE] = 0}}

(* The backend outlives the service: when the model starts it holds nothing,
   or a record that an earlier get_stock_data call fetched, had assessed and
   wrote, with some of its TTL left. *)
EntriesAtStart ==
    {[full_key |-> <<"none", "">>, entry |-> None, data |-> None]}
    \cup
    {LET fetched == FullStockData("AAPL", YAHOO_FINANCE, 0 - elapsed)
         data == [fetched EXCEPT !.data_quality =
                      assess_stock_data_quality(fetched, YAHOO_FINANCE,
                                                [failed |-> FALSE, score |-> 9000]).value]
         put == CacheService_set([k \in FullKeys |-> None], ZeroStats, "AAPL", data,
                                 _determine_cache_ttl(data), "stock_data", TRUE, 1025,
                                 0 - elapsed)
     IN  [full_key |-> _build_key("AAPL", "stock_data"),
          entry |-> put.redis[_build_key("AAPL", "stock_data")],
          data |-> data] : elapsed \in {1350}}

(* No batch call has been made *)
BatchAtRest ==
    /\ batch_pc = "idle"
    /\ symbols = <<>>
    /\ max_concurrent = 0
    /\ semaphore = 0
    /\ tasks = <<>>
    /\ stock_data_map = <<>>

(* No concurrent caller is under way, and nothing is known of the budgets'
   past but their counters *)
RateAtRest ==
    /\ ops = <<>>
    /\ attempts = [src \in RateLimited |-> rate_limits[src].requests_made]
    /\ last_check = [src \in RateLimited |-> None]

Init ==
    /\ now = 0
    /\ enable_caching \in BOOLEAN
    /\ enable_quality_assessment \in BOOLEAN
    /\ rate_limits \in InitialRateLimits
    /\ metrics = ZeroMetrics
    /\ \E held \in EntriesAtStart :
         /\ redis = [k \in FullKeys |-> IF k = held.full_key THEN held.entry ELSE None]
         /\ written = [k \in FullKeys |-> IF k = held.full_key THEN held.data ELSE None]
    /\ cache_stats = ZeroStats
    /\ pc = "idle"
    /\ symbol = ""
    /\ force_refresh = FALSE
    /\ preferred_source = NoSource
    /\ sources_to_try = <<>>
    /\ idx = 1
    /\ source = NoSource
    /\ stock_data = None
    /\ result = None
    /\ calls = 0
    /\ ticks = 0
    /\ trace = <<>>
    /\ pre = [metrics |-> ZeroMetrics, rate_limits |-> rate_limits, redis |-> redis,
              now |-> 0]
    /\ BatchAtRest
    /\ RateAtRest
    /\ cache_log = <<>>
    /\ assessed = None
    /\ quality_report = None
    /\ quality_issues = {}
    /\ priced = None
    /\ applied = <<>>
    /\ health_pc = "idle"
    /\ health_status = None
    /\ request_timestamps = <<>>
    /\ session = 0
    /\ sessions = <<>>
    /\ alpha_ops = <<>>
    /\ sent = <<>>

config == <<enable_caching, enable_quality_assessment>>
locals == <<symbol, force_refresh, preferred_source>>

(* get_stock_data is called: lines 110-112 *)
get_stock_data_call(sym, force, preferred) ==
    /\ UNCHANGED other_vars
    /\ pc \in {"idle", "done"}
    /\ calls < MaxCalls
    /\ calls' = calls + 1
    /\ symbol' = upper(sym)
    /\ force_refresh' = force
    /\ preferred_source' = preferred
    /\ sources_to_try' = <<>>
    /\ idx' = 1
    /\ source' = NoSource
    /\ stock_data' = None
    /\ result' = None
    /\ trace' = <<>>
    /\ pre' = [metrics |-> metrics, rate_limits |-> rate_limits, redis |-> redis,
               now |-> now]
    /\ pc' = "cache"
    /\ UNCHANGED <<now, config, rate_limits, metrics, redis, cache_stats, ticks, written>>

candidates_with_fallback(preferred) ==
    IF preferred # NoSource
    THEN <<preferred>> \o SelectSeq(data_source_priority, LAMBDA s : s # preferred)
    ELSE data_source_priority

candidates(preferred) ==
    IF preferred # NoSource THEN <<preferred>> ELSE data_source_priority

(* The cache check and the choice of the candidate sources: lines 114-133 *)
get_stock_data_cache_check ==
    /\ UNCHANGED other_vars
    /\ pc = "cache"
    /\ IF ~force_refresh /\ enable_caching
       THEN \E up \in BOOLEAN :
              LET got == CacheService_get(redis, cache_stats, symbol, "stock_data", up, now)
              IN  /\ cache_stats' = got.stats
                  /\ trace' = Append(trace, Event("cache_get", NoSource, got.outcome, 0))
                  /\ IF truthy(got.value)
                     THEN /\ metrics' = [metrics EXCEPT !.cache_hits = @ + 1]
                          /\ result' = got.value
                          /\ pc' = "done"
                          /\ UNCHANGED sources_to_try
                     ELSE /\ metrics' = [metrics EXCEPT !.cache_misses = @ + 1]
                          /\ sources_to_try' = candidates(preferred_source)
                          /\ pc' = "loop"
                          /\ UNCHANGED result
       ELSE /\ sources_to_try' = candidates(preferred_source)
            /\ pc' = "loop"
            /\ UNCHANGED <<cache_stats, trace, metrics, result>>
    /\ UNCHANGED <<now, config, rate_limits, redis, locals, idx, source, stock_data,
                   calls, ticks, written, pre>>

(* One turn of the for loop up to the adapter call, or the end of the loop:
   lines 134-143 with 193 and 202, and 154-156 *)
get_stock_data_loop ==
    /\ UNCHANGED other_vars
    /\ pc = "loop"
    /\ IF idx > Len(sources_to_try)
       THEN /\ IF ~truthy(stock_data)
               THEN result' = None /\ pc' = "done"
               ELSE pc' = "assess" /\ UNCHANGED result
            /\ UNCHANGED <<rate_limits, idx, source, trace>>
       ELSE LET src == sources_to_try[idx]
                chk == _check_rate_limit(rate_limits, src, now)
            IN  /\ source' = src
                /\ UNCHANGED result
                /\ IF ~chk.allowed
                   THEN /\ rate_limits' = chk.rate_limits
                        /\ trace' = Append(trace, Event("check", src, "denied", 0))
                        /\ idx' = idx + 1
                        /\ pc' = "loop"
                   ELSE IF src \in {YAHOO_FINANCE, ALPHA_VANTAGE}
                   THEN /\ rate_limits' = _update_rate_limit(chk.rate_limits, src)
                        /\ trace' = trace \o <<Event("check", src, "allowed", 0),
                                                Event("invoke", src, "started", 0)>>
                        /\ pc' = "fetch"
                        /\ UNCHANGED idx
                   ELSE /\ rate_limits' = chk.rate_limits
                        /\ trace' = Append(trace, Event("check", src, "allowed", 0))
                        /\ idx' = idx + 1
                        /\ pc' = "loop"
    /\ UNCHANGED <<now, config, metrics, redis, cache_stats, locals, sources_to_try,
                   stock_data, calls, ticks, written, pre>>

(* The adapter call returns: lines 141-152 with 194-197 and 203-207 *)
get_stock_data_fetch ==
    /\ UNCHANGED other_vars
    /\ pc = "fetch"
    /\ \E outcome \in ClientOutcomes(source) :
         LET got == IF source = YAHOO_FINANCE
                    THEN _get_data_from_yahoo(symbol, outcome, now)
                    ELSE _get_data_from_alpha_vantage(symbol, outcome, now)
         IN  /\ trace' = Append(trace, Event("yield", source, outcome, 0))
             /\ IF got.raised
                THEN /\ metrics' = [metrics EXCEPT !.api_errors = @ + 1]
                     /\ idx' = idx + 1
                     /\ pc' = "loop"
                     /\ UNCHANGED stock_data
                ELSE /\ stock_data' = got.value
                     /\ UNCHANGED metrics
                     /\ IF truthy(got.value)
                        THEN pc' = "assess" /\ UNCHANGED idx
                        ELSE pc' = "loop" /\ idx' = idx + 1
    /\ UNCHANGED <<now, config, rate_limits, redis, cache_stats, locals, sources_to_try,
                   source, result, calls, ticks, written, pre>>

(* The quality assessment: lines 158-170 *)
get_stock_data_assess ==
    /\ UNCHANGED other_vars
    /\ pc = "assess"
    /\ IF enable_quality_assessment
       THEN \E outcome \in AssessOutcomes :
              LET got == assess_stock_data_quality(stock_data, source, outcome)
              IN  /\ trace' = Append(trace, Event("assess", source,
                                       IF outcome.failed THEN "failed" ELSE "ok",
                                       outcome.score))
                  /\ IF got.raised
                     THEN UNCHANGED <<stock_data, metrics>>
                     ELSE /\ stock_data' = [stock_data EXCEPT !.data_quality = got.value]
                          /\ metrics' = [metrics EXCEPT !.quality_assessments = @ + 1]
       ELSE UNCHANGED <<stock_data, metrics, trace>>
    /\ pc' = "store"
    /\ UNCHANGED <<now, config, rate_limits, redis, cache_stats, locals, sources_to_try,
                   idx, source, result, calls, ticks, written, pre>>

(* The cache write and the return: lines 172-184 *)
get_stock_data_store ==
    /\ UNCHANGED other_vars
    /\ pc = "store"
    /\ IF enable_caching
       THEN \E up \in BOOLEAN, size \in PayloadSizes :
              LET cache_ttl == _determine_cache_ttl(stock_data)
                  put == CacheService_set(redis, cache_stats, symbol, stock_data, cache_ttl,
                                          "stock_data", up, size, now)
              IN  /\ redis' = put.redis
                  /\ written' = IF put.ok
                                THEN [written EXCEPT ![_build_key(symbol, "stock_data")] =
                                          stock_data]
                                ELSE written
                  /\ cache_stats' = put.stats
                  /\ trace' = Append(trace, Event("cache_set", NoSource,
                                       IF put.ok THEN "ok" ELSE "error", cache_ttl))
       ELSE UNCHANGED <<redis, written, cache_stats, trace>>
    /\ metrics' = [metrics EXCEPT !.requests_made = @ + 1]
    /\ result' = stock_data
    /\ pc' = "done"
    /\ UNCHANGED <<now, config, rate_limits, locals, sources_to_try, idx, source,
                   stock_data, calls, ticks, pre>>

(* Time passes between calls (a call is short against one step of the clock).
   One step is as long as the base TTL: it outlasts every TTL but the longest. *)
Tick ==
    /\ UNCHANGED other_vars
    /\ pc \in {"idle", "done"}
    /\ ticks < MaxTicks
    /\ ticks' = ticks + 1
    /\ now' = now + TickStep
    /\ UNCHANGED <<config, rate_limits, metrics, redis, cache_stats, pc, locals,
                   sources_to_try, idx, source, stock_data, result, calls, written,
                   trace, pre>>

Next ==
    \/ \E sym \in Symbols, force \in BOOLEAN, preferred \in DataSource \cup {NoSource} :
         get_stock_data_call(sym, force, preferred)
    \/ get_stock_data_cache_check
    \/ get_stock_data_loop
    \/ get_stock_data_fetch
    \/ get_stock_data_assess
    \/ get_stock_data_store
    \/ Tick

Spec == Init /\ [][Next]_vars

----------------------------------------------------------------------------
(* Reading the history of the current call *)

Key == _build_key(symbol, "stock_data")

Happened(ev, src, outcomes) ==
    \E i \in DOMAIN trace :
        trace[i].ev = ev /\ trace[i].source = src /\ trace[i].outcome \in outcomes

Denied(src) == Happened("check", src, {"denied"})
Allowed(src) == Happened("check", src, {"allowed"})
Invoked(src) == Happened("invoke", src, {"started"})
GaveRecord(src) == Happened("yield", src, {"record", "empty"})

(* What the provider's adapter handed back at a "yield" entry *)
AdapterValue(e) ==
    IF e.source = YAHOO_FINANCE
    THEN yahoo_get_stock_data(symbol, e.outcome, e.at).value
    ELSE alpha_get_comprehensive_data(symbol, e.outcome, e.at).value

(* The backend holds an entry under the key whose TTL has not run out *)
Live(store, full_key, t) ==
    store[full_key].kind = "entry" /\ t < store[full_key].expires_at

----------------------------------------------------------------------------
(* C1: with no preferred source, when the rate limiter denies Yahoo Finance
   and allows Alpha Vantage, and Alpha Vantage yields a record, the call
   returns Alpha Vantage's record, the quality report attached to it names
   Alpha Vantage as its data_source, Yahoo Finance's adapter is never invoked
   and Yahoo Finance's request counter is as it was before the call. *)
C1_Case ==
    /\ pc = "done"
    /\ preferred_source = NoSource
    /\ Denied(YAHOO_FINANCE)
    /\ Allowed(ALPHA_VANTAGE)
    /\ GaveRecord(ALPHA_VANTAGE)

C1_FallbackToSecondary ==
    C1_Case =>
        /\ result.kind = "StockData"
        /\ \E i \in DOMAIN trace :
              /\ trace[i].ev = "yield" /\ trace[i].source = ALPHA_VANTAGE
              /\ result = [AdapterValue(trace[i]) EXCEPT !.data_quality = result.data_quality]
        /\ IF enable_quality_assessment
           THEN /\ result.data_quality.kind = "DataQualityMetrics"
                /\ result.data_quality.data_source = ALPHA_VANTAGE
           ELSE result.data_quality = None
        /\ ~Invoked(YAHOO_FINANCE)
        /\ rate_limits[YAHOO_FINANCE].requests_made =
               pre.rate_limits[YAHOO_FINANCE].requests_made

C1_Witness == C1_Case /\ enable_quality_assessment /\ enable_caching

(* C2: when force_refresh is false and the cache holds a value for the
   upper-cased symbol, the call returns that value at once and adds exactly one
   to cache_hits: no rate-limit check, no adapter call, no assessment and no
   cache write happen, and the rate counters, the other metrics and the cache
   are as they were before the call. *)
C2_Case ==
    /\ pc = "done"
    /\ ~force_refresh
    /\ enable_caching
    /\ Live(pre.redis, Key, pre.now)
    /\ Happened("cache_get", NoSource, {"hit", "miss"})

C2_CacheHitFrame ==
    C2_Case =>
        /\ result = _deserialize(pre.redis[Key].payload)
        /\ metrics = [pre.metrics EXCEPT !.cache_hits = @ + 1]
        /\ rate_limits = pre.rate_limits
        /\ redis = pre.redis
        /\ Len(trace) = 1

C2_Witness == C2_Case /\ symbol = "AAPL" /\ metrics.cache_hits = 1

----------------------------------------------------------------------------
(* The entries of the history in which a source is contacted *)
Contacts == {i \in DOMAIN trace : trace[i].ev \in {"check", "invoke", "yield"}}

(* C3 as the specification states it: a call (force_refresh false) made
   while the entry that an earlier call fetched and wrote is still live
   contacts no source and returns a value equal to the record the earlier
   call returned.  The code returns the decoded JSON dict instead (Decimal and
   datetime fields as strings, nested models as dicts), so this is violated. *)
C3_Case ==
    /\ pc = "done"
    /\ ~force_refresh
    /\ enable_caching
    /\ written[Key].kind = "StockData"
    /\ Live(pre.redis, Key, pre.now)
    /\ Happened("cache_get", NoSource, {"hit"})

C3_SecondCallEqualsFirst ==
    C3_Case => /\ Contacts = {}
               /\ result = written[Key]

(* C4: the candidate list is <<preferred_source>> when a preferred source is
   given, and then no other source is checked or invoked, even if the
   preferred one is denied or fails; otherwise it is Yahoo Finance then Alpha
   Vantage, and Alpha Vantage is contacted only after Yahoo Finance was denied
   or yielded no record, and Yahoo Finance never after Alpha Vantage. *)
C4_CandidateList ==
    /\ pc \in {"loop", "fetch", "assess", "store"} =>
          sources_to_try = IF preferred_source # NoSource
                           THEN <<preferred_source>>
                           ELSE <<YAHOO_FINANCE, ALPHA_VANTAGE>>
    /\ preferred_source # NoSource =>
          \A i \in Contacts : trace[i].source = preferred_source
    /\ preferred_source = NoSource =>
          /\ \A i \in Contacts : trace[i].source \in {YAHOO_FINANCE, ALPHA_VANTAGE}
          /\ \A i \in Contacts :
                trace[i].source = ALPHA_VANTAGE =>
                   /\ \E j \in 1..(i - 1) :
                         /\ trace[j].source = YAHOO_FINANCE
                         /\ \/ trace[j].ev = "check" /\ trace[j].outcome = "denied"
                            \/ trace[j].ev = "yield" /\ trace[j].outcome = "none"
                   /\ \A j \in Contacts : j > i => trace[j].source = ALPHA_VANTAGE

C4_Witness ==
    /\ pc = "done"
    /\ preferred_source = YAHOO_FINANCE
    /\ Denied(YAHOO_FINANCE)
    /\ rate_limits[ALPHA_VANTAGE].requests_made < AlphaRequestsLimit
    /\ result = None

(* C5, amended: the loop stops at the first candidate whose adapter returns a
   record object, even one with no profile, no current price, no historical
   prices and no statements: no source is contacted after it and that record
   is what the call goes on with.  Only a candidate that returns None lets
   the loop go on to the next candidate. *)
C5_StopsAtFirstRecord ==
    /\ \A i \in DOMAIN trace :
          (trace[i].ev = "yield" /\ trace[i].outcome \in {"record", "empty"}) =>
             /\ \A j \in Contacts : j <= i
             /\ stock_data.kind = "StockData"
             /\ [stock_data EXCEPT !.data_quality = None] = AdapterValue(trace[i])
             /\ pc = "done" => result = stock_data
    /\ \A i \in DOMAIN trace :
          (/\ trace[i].ev = "yield" /\ trace[i].outcome \in {"none", "raise"}
           /\ trace[i].source = YAHOO_FINANCE /\ preferred_source = NoSource
           /\ pc \in {"fetch", "assess", "store", "done"}) =>
             \E j \in Contacts : j > i /\ trace[j].ev = "check"
                                       /\ trace[j].source = ALPHA_VANTAGE

C5_Witness ==
    /\ pc = "done"
    /\ preferred_source = NoSource
    /\ Happened("yield", YAHOO_FINANCE, {"empty"})
    /\ ~Denied(ALPHA_VANTAGE) /\ ~Allowed(ALPHA_VANTAGE)
    /\ rate_limits[ALPHA_VANTAGE].requests_made < AlphaRequestsLimit
    /\ result.kind = "StockData"
    /\ result.company_info = None /\ result.current_price = None
    /\ result.historical_prices = <<>> /\ result.financial_statements = <<>>

(* C5 as the specification states it: a candidate whose adapter returns a
   record with no profile, no current price, no historical prices and no
   statements does not stop the loop, the next candidate is tried. *)
C5_EmptyRecordDoesNotStop ==
    \A i \in DOMAIN trace :
       (/\ trace[i].ev = "yield" /\ trace[i].outcome = "empty"
        /\ trace[i].source = YAHOO_FINANCE /\ preferred_source = NoSource
        /\ pc = "done") =>
          \E j \in Contacts : j > i /\ trace[j].ev = "check"
                                    /\ trace[j].source = ALPHA_VANTAGE

(* C6 as the specification states it: every failure (raise) of a candidate's
   adapter during the call adds one to api_errors, and the loop goes on with
   the next candidate.  The wrappers around the adapters catch the failure
   and return None, so the counter never moves: this is violated. *)
Raises == {i \in DOMAIN trace : trace[i].ev = "yield" /\ trace[i].outcome = "raise"}

C6_FailureCounted ==
    pc = "done" =>
        /\ metrics.api_errors = pre.metrics.api_errors + Cardinality(Raises)
        /\ \A i \in Raises : \A j \in Contacts : j > i => trace[j].source # trace[i].source

----------------------------------------------------------------------------
(* The entries of the history with the given event *)
Entries(ev) == {i \in DOMAIN trace : trace[i].ev = ev}

(* The entries at which an adapter handed back a record object *)
Records == {i \in Entries("yield") : trace[i].outcome \in {"record", "empty"}}

(* C7: when every candidate is denied by the rate limiter, fails or yields
   nothing, the call returns None, no assessment is run and nothing is written
   to the cache; a cache write happens only after a source yielded a record
   and, where assessment is enabled, after the assessment. *)
C7_Case ==
    /\ pc = "done"
    /\ ~Happened("cache_get", NoSource, {"hit"})
    /\ Records = {}

C7_NothingFetchedNothingStored ==
    /\ C7_Case =>
          /\ result = None
          /\ Entries("assess") = {}
          /\ Entries("cache_set") = {}
          /\ redis = pre.redis
          /\ metrics.quality_assessments = pre.metrics.quality_assessments
          /\ metrics.requests_made = pre.metrics.requests_made
    /\ \A i \in Entries("cache_set") :
          /\ \E j \in Records : j < i
          /\ enable_quality_assessment =>
                \E k \in Entries("assess") : k < i /\ \E j \in Records : j < k
    /\ redis # pre.redis => Entries("cache_set") # {}

C7_Witness ==
    /\ C7_Case
    /\ enable_caching /\ enable_quality_assessment
    /\ preferred_source = NoSource
    /\ Denied(YAHOO_FINANCE)
    /\ Happened("yield", ALPHA_VANTAGE, {"raise"})

(* C8, amended: when the assessment of a fetched record fails, the call still
   returns that record, and the record carries the default report: overall
   score 0 and the issue "Assessment failed".  The failed assessment is
   counted in quality_assessments, and the record is cached for a quarter of
   the base TTL. *)
C8_Case == pc = "done" /\ Happened("assess", source, {"failed"})

C8_FailedAssessmentDefaultReport ==
    C8_Case =>
        /\ result.kind = "StockData"
        /\ \E i \in Records : [result EXCEPT !.data_quality = None] = AdapterValue(trace[i])
        /\ result.data_quality.kind = "DataQualityMetrics"
        /\ result.data_quality.quality_score = Decimal(0)
        /\ result.data_quality.issues = <<"Assessment failed">>
        /\ metrics.quality_assessments = pre.metrics.quality_assessments + 1
        /\ \A i \in Entries("cache_set") : trace[i].arg = 225

C8_Witness == C8_Case /\ enable_caching /\ Happened("cache_set", NoSource, {"ok"})

(* C8 as the specification states it: when the assessment fails the record
   is returned with no quality report. *)
C8_NoReportAfterFailure ==
    C8_Case => result.kind = "StockData" /\ result.data_quality = None

(* C9: the TTL of a cache write is a function of the overall score only:
   1800 s from 90 up, 900 s from 75 to below 90, 450 s from 60 to below 75,
   225 s below 60, and 900 s for a record without a report; a higher score
   never gets a shorter TTL.  Scores are in hundredths. *)
TtlOfScore(score) ==
    IF score >= 9000 THEN 1800
    ELSE IF score >= 7500 THEN 900
    ELSE IF score >= 6000 THEN 450
    ELSE 225

ScoreSamples == {0, 1, 3000, 5999, 6000, 6001, 7499, 7500, 7501, 8999, 9000, 9001, 10000}

Scored(score) ==
    [EmptyStockData("AAPL", 0) EXCEPT
        !.data_quality = DataQualityMetrics("AAPL", YAHOO_FINANCE, score, <<>>)]

C9_TtlByScore ==
    /\ \A i \in Entries("cache_set") :
          /\ trace[i].arg = IF stock_data.data_quality = None
                            THEN 900
                            ELSE TtlOfScore(stock_data.data_quality.quality_score.v)
          /\ trace[i].outcome = "ok" =>
                /\ redis[Key].kind = "entry"
                /\ redis[Key].expires_at = trace[i].at + trace[i].arg
    /\ pc = "idle" =>
          /\ \A a \in ScoreSamples :
                /\ _determine_cache_ttl(Scored(a)) = TtlOfScore(a)
                /\ \A b \in ScoreSamples :
                      a <= b => _determine_cache_ttl(Scored(a)) <= _determine_cache_ttl(Scored(b))
          /\ _determine_cache_ttl(EmptyStockData("AAPL", 0)) = 900

C9_Witness ==
    /\ pc = "done"
    /\ Happened("cache_set", NoSource, {"ok"})
    /\ result.data_quality # None
    /\ result.data_quality.quality_score = Decimal(9000)
    /\ redis[Key].expires_at = now + 1800

(* C10: when every cache operation of the call fails, the call returns the
   record that the same answers of the sources and of the assessment give
   with caching disabled: the failed read counts as a miss, the failed write
   is ignored, and the backend's content is untouched. *)
Uncached ==
    IF Records = {}
    THEN None
    ELSE LET i == CHOOSE r \in Records : TRUE
             fetched == AdapterValue(trace[i])
         IN  IF enable_quality_assessment /\ Entries("assess") # {}
             THEN LET k == CHOOSE a \in Entries("assess") : TRUE
                  IN  [fetched EXCEPT !.data_quality =
                          assess_stock_data_quality(
                              fetched, trace[i].source,
                              [failed |-> trace[k].outcome = "failed",
                               score |-> trace[k].arg]).value]
             ELSE fetched

CacheDown ==
    /\ enable_caching
    /\ \A i \in Entries("cache_get") \cup Entries("cache_set") : trace[i].outcome = "error"

C10_CacheDownAsUncached ==
    (pc = "done" /\ (CacheDown \/ ~enable_caching)) =>
        /\ result = Uncached
        /\ redis = pre.redis

C10_Witness ==
    /\ pc = "done"
    /\ CacheDown
    /\ ~force_refresh
    /\ Live(pre.redis, Key, pre.now)
    /\ Happened("cache_get", NoSource, {"error"})
    /\ Happened("cache_set", NoSource, {"error"})
    /\ result.kind = "StockData"
    /\ result.data_quality # None

----------------------------------------------------------------------------
(* DataService.batch_get_stock_data: one get_single_stock task per requested
   symbol, a semaphore of max_concurrent slots around each lookup, and
   asyncio.gather with return_exceptions=True. *)

MaxBatch == 3
MaxConcurrent == 2

BatchSymbols == {"AAPL", "BADSYMBOL", "MSFT"}

SymbolLists == UNION {[1..n -> BatchSymbols] : n \in 0..MaxBatch}

(* What happens inside one lookup: a record is built, no source has data, or
   an exception is raised somewhere inside get_stock_data *)
LookupOutcomes == {"record", "no_data", "exception"}

get_stock_data_propagating(sym, outcome, t) ==
    CASE outcome = "record" ->
            [raised |-> FALSE, value |-> FullStockData(upper(sym), YAHOO_FINANCE, t)]
      [] outcome = "no_data" -> [raised |-> FALSE, value |-> None]
      [] OTHER -> [raised |-> TRUE, value |-> None]

(* get_stock_data as its caller sees it: the whole body is inside
   "try: ... except Exception: return None" (lines 110 and 186-188) *)
get_stock_data_returns(sym, outcome, t) ==
    CASE outcome = "record" ->
            [raised |-> FALSE, value |-> FullStockData(upper(sym), YAHOO_FINANCE, t)]
      [] outcome = "no_data" -> [raised |-> FALSE, value |-> None]
      [] OTHER -> [raised |-> FALSE, value |-> None]

semaphore_acquire_unchecked(value) == [acquired |-> TRUE, value |-> value - 1]

(* asyncio.Semaphore.acquire without waiting: a slot is taken if one is free *)
Semaphore_acquire(value) ==
    [acquired |-> value > 0, value |-> IF value > 0 THEN value - 1 ELSE value]

semaphore_release_lost(value) == value

(* asyncio.Semaphore.release *)
Semaphore_release(value) == value + 1

(* A get_single_stock task: "pending" until it holds a slot, "running" while
   it awaits get_stock_data inside "async with semaphore", then "returned"
   (with its (symbol, data) pair), "raised" or "cancelled" *)
Task(sym, state, outcome, data) ==
    [symbol |-> sym, state |-> state, outcome |-> outcome, result |-> data]

Ended(task) == task.state \in {"returned", "raised", "cancelled"}

(* The loop over gather's results, lines 361-370 and 376-378: an Exception is
   skipped; a CancelledError is no Exception (it derives from BaseException),
   so unpacking it raises TypeError and the outer handler returns {}; pairs
   are stored in order, a later pair of the same symbol replacing the earlier *)
process_results(ts) ==
    IF \E i \in DOMAIN ts : ts[i].state = "cancelled"
    THEN <<>>
    ELSE LET returned == {i \in DOMAIN ts : ts[i].state = "returned"}
             last(k) == CHOOSE i \in returned :
                           /\ ts[i].symbol = k
                           /\ \A j \in returned : ts[j].symbol = k => j <= i
         IN  [k \in {ts[i].symbol : i \in returned} |-> ts[last(k)].result]

(* What a batch step leaves alone *)
outside_batch == <<service_vars, rate_vars, cache_log, quality_vars, probe_vars, alpha_vars>>

(* batch_get_stock_data is called: lines 346-358, up to the await of gather *)
batch_get_stock_data_call(syms, limit) ==
    /\ batch_pc = "idle"
    /\ symbols' = syms
    /\ max_concurrent' = limit
    /\ semaphore' = limit
    /\ tasks' = [i \in DOMAIN syms |-> Task(syms[i], "pending", "", None)]
    /\ stock_data_map' = <<>>
    /\ batch_pc' = "gather"
    /\ UNCHANGED outside_batch

(* A task enters "async with semaphore" and starts its lookup: lines 352-353 *)
get_single_stock_acquire(i) ==
    /\ batch_pc = "gather"
    /\ tasks[i].state = "pending"
    /\ LET got == Semaphore_acquire(semaphore)
       IN  /\ got.acquired
           /\ semaphore' = got.value
    /\ tasks' = [tasks EXCEPT ![i].state = "running"]
    /\ UNCHANGED <<batch_pc, symbols, max_concurrent, stock_data_map, outside_batch>>

(* The lookup of a task ends and the task leaves the "async with": lines 353-354 *)
get_single_stock_return(i, outcome) ==
    /\ batch_pc = "gather"
    /\ tasks[i].state = "running"
    /\ LET got == get_stock_data_returns(tasks[i].symbol, outcome, now)
       IN  tasks' = [tasks EXCEPT ![i] =
                        Task(@.symbol, IF got.raised THEN "raised" ELSE "returned",
                             outcome, got.value)]
    /\ semaphore' = Semaphore_release(semaphore)
    /\ UNCHANGED <<batch_pc, symbols, max_concurrent, stock_data_map, outside_batch>>

(* A task is cancelled from outside while it waits for a slot or for its
   lookup; CancelledError passes get_stock_data's "except Exception" and the
   "async with" gives the slot back on the way out *)
get_single_stock_cancel(i) ==
    /\ batch_pc = "gather"
    /\ tasks[i].state \in {"pending", "running"}
    /\ semaphore' = IF tasks[i].state = "running"
                    THEN Semaphore_release(semaphore)
                    ELSE semaphore
    /\ tasks' = [tasks EXCEPT ![i] = Task(@.symbol, "cancelled", "cancelled", None)]
    /\ UNCHANGED <<batch_pc, symbols, max_concurrent, stock_data_map, outside_batch>>

(* gather returns once every task has ended; the results are processed and
   the map is returned: lines 359-374 *)
batch_get_stock_data_finish ==
    /\ batch_pc = "gather"
    /\ \A i \in DOMAIN tasks : Ended(tasks[i])
    /\ stock_data_map' = process_results(tasks)
    /\ batch_pc' = "done"
    /\ UNCHANGED <<symbols, max_concurrent, semaphore, tasks, outside_batch>>

InitBatch ==
    /\ Init
    /\ enable_caching /\ enable_quality_assessment
    /\ \A src \in RateLimited : ~is_limit_exceeded(rate_limits[src])
    /\ \A k \in FullKeys : redis[k] = None

NextBatch ==
    \/ \E syms \in SymbolLists, limit \in 1..MaxConcurrent :
         batch_get_stock_data_call(syms, limit)
    \/ \E i \in DOMAIN tasks : get_single_stock_acquire(i)
    \/ \E i \in DOMAIN tasks, outcome \in LookupOutcomes : get_single_stock_return(i, outcome)
    \/ \E i \in DOMAIN tasks : get_single_stock_cancel(i)
    \/ batch_get_stock_data_finish

SpecBatch == InitBatch /\ [][NextBatch]_vars

(* Reading a batch *)
Requested == {symbols[i] : i \in DOMAIN symbols}
Cancelled == \E i \in DOMAIN tasks : tasks[i].state = "cancelled"
InFlight == Cardinality({i \in DOMAIN tasks : tasks[i].state = "running"})

(* C11: whatever the list of requested symbols and whatever each lookup
   came to (a record, no data, an exception inside the lookup), the map the
   batch returns has exactly the requested symbols as its keys; a symbol
   whose lookup failed is mapped to None and every other symbol to the record
   its own (last) lookup returned. *)
C11_Case == batch_pc = "done" /\ ~Cancelled

C11_BatchComplete ==
    C11_Case =>
        /\ DOMAIN stock_data_map = Requested
        /\ \A i \in DOMAIN tasks :
              (\A j \in DOMAIN tasks : symbols[j] = symbols[i] => j <= i) =>
                 stock_data_map[symbols[i]] =
                    IF tasks[i].outcome = "record"
                    THEN FullStockData(symbols[i], YAHOO_FINANCE, now)
                    ELSE None

C11_Witness ==
    /\ C11_Case
    /\ symbols = <<"AAPL", "BADSYMBOL", "MSFT">>
    /\ max_concurrent = 2
    /\ tasks[1].outcome = "record"
    /\ tasks[2].outcome = "exception"
    /\ tasks[3].outcome = "record"
    /\ Cardinality(DOMAIN stock_data_map) = 3

(* C12: while a batch runs, the number of lookups in flight never exceeds
   max_concurrent, and it is the number of slots taken from the semaphore. *)
C12_InFlightBounded ==
    batch_pc = "gather" =>
        /\ InFlight <= max_concurrent
        /\ InFlight = max_concurrent - semaphore

C12_Witness ==
    /\ batch_pc = "gather"
    /\ Len(symbols) = 3
    /\ max_concurrent = 2
    /\ InFlight = 2
    /\ \E i \in DOMAIN tasks : tasks[i].state = "pending"

(* C13 as the specification states it: when a task of the batch was
   cancelled, the semaphore is back at max_concurrent free slots once all
   tasks have ended, and every sibling that ran to completion has its result
   in the returned map.  The slot is given back, but the loop over the
   results fails on the CancelledError and the call returns the empty map,
   so this is violated. *)
C13_CancelledTaskSparesSiblings ==
    (batch_pc = "done" /\ Cancelled) =>
        /\ semaphore = max_concurrent
        /\ \A i \in DOMAIN tasks :
              tasks[i].state = "returned" =>
                 /\ tasks[i].symbol \in DOMAIN stock_data_map
                 /\ \E j \in DOMAIN tasks :
                       /\ tasks[j].symbol = tasks[i].symbol
                       /\ tasks[j].state = "returned"
                       /\ stock_data_map[tasks[i].symbol] = tasks[j].result

----------------------------------------------------------------------------
(* Concurrent callers of get_stock_data, search_symbols and get_market_data
   on one DataService with caching disabled, seen from the rate limiter: each
   caller runs from one suspension point (an awaited fetch) to the next
   without interruption, as coroutines on one event loop do. *)

MaxProcs == 2

Operations == {"get_stock_data", "search_symbols", "get_market_data"}

(* The sources an operation goes through, in order: lines 82 and 131,
   232-241, 293-307 *)
visits(op) == <<YAHOO_FINANCE, ALPHA_VANTAGE>>

(* get_stock_data records the request before the fetch (lines 193, 202);
   search_symbols and get_market_data record it after the fetch, inside the
   try block of the fetch (lines 236, 254, 297, 314) *)
records_before_fetch(op) == op = "get_stock_data"

(* How an awaited fetch can end.  The clients catch their own failures and
   return nothing; in search_symbols the exit of the Alpha Vantage context
   manager and the conversion of the results run after the fetch and before
   the counter update, and may raise. *)
FetchOutcomes(op, src) ==
    IF op = "get_stock_data" THEN ClientOutcomes(src)
    ELSE IF op = "search_symbols" /\ src = ALPHA_VANTAGE THEN {"record", "none", "raise"}
    ELSE {"record", "none"}

(* Whether the operation is over after this fetch: get_stock_data breaks on a
   record (line 145-147); search_symbols goes on while it has fewer than 5
   results (Yahoo Finance gives at most one); get_market_data always goes on *)
stops_after(op, outcome) == op = "get_stock_data" /\ outcome \in {"record", "empty"}

Check(t, allowed, rl) ==
    [kind |-> "check", at |-> t, allowed |-> allowed,
     recorded |-> rl.requests_made, reset_time |-> rl.reset_time]

(* From the i-th source on, up to the next awaited fetch or the end: the
   rate-limit check of each source in turn, the first allowed one is fetched *)
RECURSIVE admit(_, _, _, _, _, _)
admit(op, i, rl, att, lc, t) ==
    IF i > Len(visits(op))
    THEN [rate_limits |-> rl, attempts |-> att, last_check |-> lc, pc |-> "done", at |-> i]
    ELSE LET src == visits(op)[i]
             chk == _check_rate_limit(rl, src, t)
             att1 == IF chk.rate_limits[src].reset_time # rl[src].reset_time
                     THEN [att EXCEPT ![src] = 0]
                     ELSE att
             lc1 == [lc EXCEPT ![src] = Check(t, chk.allowed, rl[src])]
         IN  IF chk.allowed
             THEN [rate_limits |-> IF records_before_fetch(op)
                                   THEN _update_rate_limit(chk.rate_limits, src)
                                   ELSE chk.rate_limits,
                   attempts |-> [att1 EXCEPT ![src] = @ + 1],
                   last_check |-> lc1, pc |-> "fetch", at |-> i]
             ELSE admit(op, i + 1, chk.rate_limits, att1, lc1, t)

Caller(op, pc_, at, outcome) == [op |-> op, pc |-> pc_, at |-> at, outcome |-> outcome]

outside_rate == <<now, config, metrics, redis, cache_stats, pc, locals, sources_to_try,
                  idx, source, stock_data, result, calls, ticks, written, trace, pre,
                  batch_vars, cache_log, quality_vars, probe_vars, alpha_vars>>

(* A caller starts an operation and runs to its first awaited fetch *)
caller_start(op) ==
    /\ Len(ops) < MaxProcs
    /\ LET go == admit(op, 1, rate_limits, attempts, last_check, now)
       IN  /\ rate_limits' = go.rate_limits
           /\ attempts' = go.attempts
           /\ last_check' = go.last_check
           /\ ops' = Append(ops, Caller(op, go.pc, go.at, ""))
    /\ UNCHANGED outside_rate

(* The awaited fetch of a caller ends and the caller runs on to its next
   awaited fetch or to its end *)
caller_resume(p, outcome) ==
    /\ ops[p].pc = "fetch"
    /\ LET op == ops[p].op
           src == visits(op)[ops[p].at]
           rl == IF ~records_before_fetch(op) /\ outcome # "raise"
                 THEN _update_rate_limit(rate_limits, src)
                 ELSE rate_limits
           go == IF stops_after(op, outcome)
                 THEN [rate_limits |-> rl, attempts |-> attempts,
                       last_check |-> last_check, pc |-> "done", at |-> ops[p].at]
                 ELSE admit(op, ops[p].at + 1, rl, attempts, last_check, now)
       IN  /\ outcome \in FetchOutcomes(op, src)
           /\ rate_limits' = go.rate_limits
           /\ attempts' = go.attempts
           /\ last_check' = go.last_check
           /\ ops' = [ops EXCEPT ![p] = Caller(op, go.pc, go.at, outcome)]
    /\ UNCHANGED outside_rate

InitRate ==
    /\ Init
    /\ ~enable_caching /\ enable_quality_assessment
    /\ \A k \in FullKeys : redis[k] = None

NextRate ==
    \/ \E op \in Operations : caller_start(op)
    \/ \E p \in DOMAIN ops, outcome \in {"record", "empty", "none", "raise"} :
         caller_resume(p, outcome)
    \/ Tick

SpecRate == InitRate /\ [][NextRate]_vars

(* C14: a check made within a source's window, when requests_limit or more
   requests are recorded for it, returns False; a check made after the
   window's reset_time has passed returns True. *)
C14_WindowGate ==
    \A src \in RateLimited :
       last_check[src].kind = "check" =>
          /\ (/\ last_check[src].at <= last_check[src].reset_time
              /\ last_check[src].recorded >= requests_limit(src)) =>
                ~last_check[src].allowed
          /\ last_check[src].at > last_check[src].reset_time =>
                last_check[src].allowed

C14_Witness ==
    /\ last_check[YAHOO_FINANCE].kind = "check"
    /\ last_check[YAHOO_FINANCE].recorded >= YahooRequestsLimit
    /\ last_check[YAHOO_FINANCE].at > last_check[YAHOO_FINANCE].reset_time
    /\ last_check[YAHOO_FINANCE].allowed
    /\ last_check[ALPHA_VANTAGE].kind = "check"
    /\ last_check[ALPHA_VANTAGE].recorded >= AlphaRequestsLimit
    /\ last_check[ALPHA_VANTAGE].at <= last_check[ALPHA_VANTAGE].reset_time
    /\ ~last_check[ALPHA_VANTAGE].allowed

(* C15 as the specification states it: once every caller has ended (and no
   window was reset meanwhile), each source's counter has gone up by one for
   every fetch attempted against it, whichever operation made the attempt
   and however the fetch ended.  search_symbols skips the update when the
   fetch block raises, so this is violated. *)
AllEnded == \A p \in DOMAIN ops : ops[p].pc = "done"

C15_EveryAttemptCounted ==
    (ticks = 0 /\ AllEnded) =>
        \A src \in RateLimited : rate_limits[src].requests_made = attempts[src]

(* C16 as the specification states it: under every interleaving of
   callers, no source has more fetches admitted in a window than its
   requests_limit, and its counter never exceeds the limit.  search_symbols
   and get_market_data await the fetch between the check and the update, so
   two callers pass the same check: this is violated. *)
C16_NeverPastLimit ==
    \A src \in RateLimited :
       /\ attempts[src] <= requests_limit(src)
       /\ rate_limits[src].requests_made <= requests_limit(src)

----------------------------------------------------------------------------
(* CacheService used directly: set, get and delete on one key, the clock, and
   a backend whose stored bytes may be damaged or which may be unreachable. *)

MaxCacheOps == 3

CacheKeys == {"AAPL"}

(* A plain JSON object, and a record model *)
CacheValues == {[kind |-> "dict", test |-> "data"], FullStockData("AAPL", YAHOO_FINANCE, 0)}

(* ttl arguments; 0 stands for None, "use the default" *)
CacheTtls == {0, 900, 1800}

(* CacheService.delete *)
CacheService_delete(store, stats, key, data_type, up, t) ==
    IF ~up
    THEN [redis |-> store, stats |-> [stats EXCEPT !.errors = @ + 1], ok |-> FALSE]
    ELSE LET full_key == _build_key(key, data_type)
             found == redis_get(store, full_key, t).kind # "None"
         IN  [redis |-> [store EXCEPT ![full_key] = None],
              stats |-> IF found THEN [stats EXCEPT !.deletes = @ + 1] ELSE stats,
              ok |-> found]

(* One CacheService call as the log keeps it *)
Logged(op, key, data, ttl, size, up, returned, stats) ==
    [op |-> op, key |-> key, data |-> data, ttl |-> ttl, size |-> size, up |-> up,
     at |-> now, returned |-> returned, before |-> cache_stats, after |-> stats]

outside_cache == <<enable_caching, enable_quality_assessment, rate_limits, metrics, pc,
                   locals, sources_to_try, idx, source, stock_data, result, calls,
                   ticks, trace, pre, batch_vars, rate_vars, quality_vars, probe_vars, alpha_vars>>

cache_set(key, data, ttl, size, up) ==
    /\ Len(cache_log) < MaxCacheOps
    /\ LET put == CacheService_set(redis, cache_stats, key, data, ttl, "stock_data", up,
                                   size, now)
       IN  /\ redis' = put.redis
           /\ cache_stats' = put.stats
           /\ written' = IF put.ok
                         THEN [written EXCEPT ![_build_key(key, "stock_data")] = data]
                         ELSE written
           /\ cache_log' = Append(cache_log,
                                  Logged("set", key, data, ttl, size, up,
                                         [kind |-> "bool", v |-> put.ok], put.stats))
    /\ UNCHANGED <<now, outside_cache>>

cache_get(key, up) ==
    /\ Len(cache_log) < MaxCacheOps
    /\ LET got == CacheService_get(redis, cache_stats, key, "stock_data", up, now)
       IN  /\ cache_stats' = got.stats
           /\ cache_log' = Append(cache_log,
                                  Logged("get", key, None, 0, 0, up, got.value, got.stats))
    /\ UNCHANGED <<now, redis, written, outside_cache>>

cache_delete(key, up) ==
    /\ Len(cache_log) < MaxCacheOps
    /\ LET del == CacheService_delete(redis, cache_stats, key, "stock_data", up, now)
       IN  /\ redis' = del.redis
           /\ cache_stats' = del.stats
           /\ written' = IF up
                         THEN [written EXCEPT ![_build_key(key, "stock_data")] = None]
                         ELSE written
           /\ cache_log' = Append(cache_log,
                                  Logged("delete", key, None, 0, 0, up,
                                         [kind |-> "bool", v |-> del.ok], del.stats))
    /\ UNCHANGED <<now, outside_cache>>

(* The bytes under a live key are damaged behind the service's back *)
cache_damage(key, compressed) ==
    /\ Len(cache_log) < MaxCacheOps
    /\ Live(redis, _build_key(key, "stock_data"), now)
    /\ redis' = [redis EXCEPT ![_build_key(key, "stock_data")].payload =
                    Undecodable(compressed)]
    /\ cache_log' = Append(cache_log,
                           Logged("damage", key, None, 0, 0, TRUE, None, cache_stats))
    /\ UNCHANGED <<now, cache_stats, written, outside_cache>>

InitCache ==
    /\ Init
    /\ enable_caching /\ enable_quality_assessment
    /\ \A src \in RateLimited : ~is_limit_exceeded(rate_limits[src])

(* The backend may be unreachable for a get; writes and deletes reach it (the
   unreachable backend on the write path is part of get_stock_data's model) *)
NextCache ==
    \/ \E key \in CacheKeys, data \in CacheValues, ttl \in CacheTtls,
          size \in PayloadSizes : cache_set(key, data, ttl, size, TRUE)
    \/ \E key \in CacheKeys, up \in BOOLEAN : cache_get(key, up)
    \/ \E key \in CacheKeys : cache_delete(key, TRUE)
    \/ \E key \in CacheKeys, compressed \in BOOLEAN : cache_damage(key, compressed)
    \/ Tick

SpecCache == InitCache /\ [][NextCache]_vars

(* Reading the log of CacheService calls *)
Gets == {i \in DOMAIN cache_log : cache_log[i].op = "get" /\ cache_log[i].up}

(* The latest call before the i-th that changed what the key holds, 0 if none *)
LastChange(i) ==
    LET changes == {j \in 1..(i - 1) :
                       /\ cache_log[j].key = cache_log[i].key
                       /\ cache_log[j].op \in {"set", "delete", "damage"}}
    IN  IF changes = {} THEN 0 ELSE CHOOSE j \in changes : \A k \in changes : k <= j

(* C17: a get that directly follows a set of the same key returns the value
   that was set, as the store's serialization gives it back (a plain JSON
   object unchanged), whether the payload was small enough to be stored raw
   or was compressed; a get that directly follows a delete returns None. *)
C17_RoundTrip ==
    \A i \in Gets :
       i > 1 =>
          LET prev == cache_log[i - 1]
              got == cache_log[i]
          IN  /\ (prev.op = "set" /\ prev.key = got.key /\ prev.at = got.at) =>
                    /\ got.returned = to_json(prev.data)
                    /\ prev.data.kind = "dict" => got.returned = prev.data
                    /\ got.after = [got.before EXCEPT !.hits = @ + 1]
              /\ (prev.op = "delete" /\ prev.key = got.key) =>
                    got.returned = None

C17_Witness ==
    /\ Len(cache_log) = 3
    /\ cache_log[1].op = "set" /\ cache_log[1].size > compression_threshold
    /\ cache_log[1].data.kind = "StockData"
    /\ cache_log[2].op = "get" /\ cache_log[2].up /\ cache_log[2].at = cache_log[1].at
    /\ cache_log[2].returned = to_json(cache_log[1].data)
    /\ cache_log[3].op = "delete" /\ cache_log[3].returned.v

(* C18: a get finds an entry written with TTL t exactly while fewer than t
   seconds have passed since the write (no write, delete or damage between
   them); after that it returns None and the call is counted as a miss. *)
C18_TtlByStore ==
    \A i \in Gets :
       LET j == LastChange(i)
       IN  (j > 0 /\ cache_log[j].op = "set" /\ cache_log[j].ttl > 0) =>
              /\ cache_log[i].returned # None <=>
                    cache_log[i].at - cache_log[j].at < cache_log[j].ttl
              /\ cache_log[i].at - cache_log[j].at >= cache_log[j].ttl =>
                    cache_log[i].after = [cache_log[i].before EXCEPT !.misses = @ + 1]

C18_Witness ==
    /\ Len(cache_log) = 2
    /\ cache_log[1].op = "set" /\ cache_log[1].ttl = 900 /\ cache_log[1].at = 0
    /\ cache_log[2].op = "get" /\ cache_log[2].up /\ cache_log[2].at = 900
    /\ cache_log[2].returned = None
    /\ cache_stats.misses = 1

(* C19: a get of a key whose bytes cannot be decoded returns None and adds
   one to errors; hits and misses stay as they were. *)
C19_Case(i) ==
    /\ LastChange(i) > 0
    /\ cache_log[LastChange(i)].op = "damage"
    /\ cache_log[LastChange(i)].at = cache_log[i].at

C19_UndecodableIsError ==
    \A i \in Gets :
       C19_Case(i) =>
          /\ cache_log[i].returned = None
          /\ cache_log[i].after = [cache_log[i].before EXCEPT !.errors = @ + 1]

C19_Witness ==
    /\ Len(cache_log) = 3
    /\ cache_log[1].op = "set" /\ cache_log[1].size > compression_threshold
    /\ cache_log[2].op = "damage"
    /\ cache_log[3].op = "get" /\ cache_log[3].up
    /\ cache_log[3].at = cache_log[2].at
    /\ cache_stats.errors = 1 /\ cache_stats.hits = 0 /\ cache_stats.misses = 0

----------------------------------------------------------------------------
(* DataQualityService.assess_stock_data_quality in detail.  The assessor is
   modelled on what it reads off a record: how many fields are filled, how
   old the parts are, how many entries pass validation.  Scores are exact
   fractions of a point until they are rounded to hundredths. *)

Frac(n, d) == [n |-> n, d |-> d]

RECURSIVE GCD(_, _)
GCD(a, b) == IF b = 0 THEN a ELSE GCD(b, a % b)

(* A fraction in lowest terms, d > 0 *)
Lowest(n, d) ==
    LET g == GCD(IF n < 0 THEN -n ELSE n, d) IN Frac(n \div g, d \div g)

FracSum(a, b) == Lowest(a.n * b.d + b.n * a.d, a.d * b.d)

RECURSIVE FracTotal(_)
FracTotal(xs) == IF xs = <<>> THEN Frac(0, 1) ELSE FracSum(Head(xs), FracTotal(Tail(xs)))

(* statistics.mean, and "mean(xs) if xs else 0" *)
mean(xs) == Frac(FracTotal(xs).n, FracTotal(xs).d * Len(xs))
mean_or_zero(xs) == IF xs = <<>> THEN Frac(0, 1) ELSE mean(xs)

(* round(x, 2), in hundredths *)
round2(x) == (200 * x.n + x.d) \div (2 * x.d)

(* max(0, score) at the end of the _validate_* helpers *)
validated(penalty) == IF 100 - penalty > 0 THEN 100 - penalty ELSE 0

(* An optional number: None or a Decimal / int value *)
Number(v) == [kind |-> "Number", v |-> v]

(* Python truth of an optional number: neither None nor zero *)
nonzero(x) == x.kind # "None" /\ x.v # 0

(* A StockPrice by the fields the validation reads *)
PricePoint(open, high, low, close, volume) ==
    [kind |-> "StockPrice", open_price |-> open, high_price |-> high,
     low_price |-> low, close_price |-> close, volume |-> volume]

(* _validate_price_data, lines 476-516: the score and the issues it appends *)
_validate_price_data(price, silent) ==
    LET no_close == ~nonzero(price.close_price)
        all_four == /\ nonzero(price.open_price) /\ nonzero(price.high_price)
                    /\ nonzero(price.low_price) /\ nonzero(price.close_price)
        open_out == all_four /\ ~(/\ price.low_price.v <= price.open_price.v
                                   /\ price.open_price.v <= price.high_price.v)
        close_out == all_four /\ ~(/\ price.low_price.v <= price.close_price.v
                                    /\ price.close_price.v <= price.high_price.v)
        unreasonable == nonzero(price.close_price)
                        /\ (price.close_price.v <= 0 \/ price.close_price.v > 100000)
        negative == price.volume.kind # "None" /\ price.volume.v < 0
        penalty == (IF no_close THEN 30 ELSE 0) + (IF open_out THEN 20 ELSE 0)
                   + (IF close_out THEN 20 ELSE 0) + (IF unreasonable THEN 25 ELSE 0)
                   + (IF negative THEN 15 ELSE 0)
        found == (IF no_close THEN {"Missing close price"} ELSE {})
                 \cup (IF open_out
                       THEN {"Invalid price relationship: open not between high/low"}
                       ELSE {})
                 \cup (IF close_out
                       THEN {"Invalid price relationship: close not between high/low"}
                       ELSE {})
                 \cup (IF unreasonable THEN {"Unreasonable close price"} ELSE {})
                 \cup (IF negative THEN {"Negative volume"} ELSE {})
    IN  [score |-> validated(penalty), issues |-> IF silent THEN {} ELSE found]

(* What the assessor reads off a current price: the fields of lines 137-142
   that are filled, its age, and what _validate_price_data makes of it *)
measured_price(price, age_days) ==
    IF price.kind = "None" THEN None
    ELSE [kind |-> "StockPrice",
          filled |-> Cardinality({f \in {"open_price", "high_price", "low_price",
                                         "close_price", "volume"} :
                                     price[f].kind # "None"}),
          age_days |-> age_days,
          penalty |-> 100 - _validate_price_data(price, FALSE).score,
          issues |-> _validate_price_data(price, FALSE).issues]

(* What the assessor reads off a list of historical prices no longer than 30,
   all on consecutive days: lines 327-334 count the entries whose silent
   validation gives a score that is true in Python, that is, not 0 *)
measured_history(points, age_days) ==
    [count |-> Len(points),
     valid |-> Cardinality({i \in 1..Len(points) :
                              _validate_price_data(points[i], TRUE).score # 0}),
     age_days |-> age_days, gaps |-> 0, outliers |-> 0]

(* What the assessor reads off a record:
   company_info: None, or how many of the 7 fields are filled and the sum of
     the validation penalties;
   current_price: None, or how many of the 5 fields are filled, its age in
     days, the sum of the validation penalties and the issues the validation
     appends;
   historical_prices: how many there are, how many of the first 30 validate,
     the age of the latest, the gaps between trading days, the outliers in
     percent;
   financial_statements: how many there are, how many end within two years,
     the components the first two of those hold, how many validate, the age
     of the latest, the mean interval between them;
   age_hours: the age of last_updated; symbol_count: the distinct symbols of
     the parts *)
Companies ==
    {None, [kind |-> "CompanyInfo", filled |-> 0, penalty |-> 75],
           [kind |-> "CompanyInfo", filled |-> 7, penalty |-> 0]}

Prices ==
    {None, [kind |-> "StockPrice", filled |-> 5, age_days |-> 0, penalty |-> 0,
            issues |-> {}],
           [kind |-> "StockPrice", filled |-> 1, age_days |-> 3, penalty |-> 45,
            issues |-> {"Missing close price", "Negative volume"}],
           [kind |-> "StockPrice", filled |-> 5, age_days |-> 8, penalty |-> 80,
            issues |-> {"Invalid price relationship: open not between high/low",
                        "Invalid price relationship: close not between high/low",
                        "Unreasonable close price", "Negative volume"}]}

Histories ==
    {[count |-> 0, valid |-> 0, age_days |-> 0, gaps |-> 0, outliers |-> 0],
     [count |-> 5, valid |-> 0, age_days |-> 8, gaps |-> 3, outliers |-> 0],
     [count |-> 30, valid |-> 30, age_days |-> 1, gaps |-> 0, outliers |-> 0],
     [count |-> 40, valid |-> 30, age_days |-> 3, gaps |-> 1, outliers |-> 10]}

Statements ==
    {[count |-> 0, recent |-> 0, components |-> 0, valid |-> 0, age_days |-> 0,
      interval |-> 0],
     [count |-> 1, recent |-> 0, components |-> 0, valid |-> 0, age_days |-> 800,
      interval |-> 0],
     [count |-> 2, recent |-> 2, components |-> 6, valid |-> 2, age_days |-> 90,
      interval |-> 365],
     [count |-> 3, recent |-> 2, components |-> 3, valid |-> 1, age_days |-> 200,
      interval |-> 500]}

(* The sub-assessments in which an exception is raised (each has its own
   handler), and whether one is raised in assess_stock_data_quality itself *)
Dimensions == {"completeness", "freshness", "accuracy", "consistency"}

Failures == {{}, Dimensions} \cup {{dim} : dim \in Dimensions}

Measured ==
    [company_info : Companies, current_price : Prices, historical_prices : Histories,
     financial_statements : Statements, age_hours : {0, 100}, symbol_count : {1, 2},
     failing : Failures, fails : BOOLEAN]

(* The record an adapter returns when every sub-fetch found nothing, assessed
   right away *)
MeasuredEmpty ==
    [company_info |-> None, current_price |-> None,
     historical_prices |-> [count |-> 0, valid |-> 0, age_days |-> 0, gaps |-> 0,
                            outliers |-> 0],
     financial_statements |-> [count |-> 0, recent |-> 0, components |-> 0,
                               valid |-> 0, age_days |-> 0, interval |-> 0],
     age_hours |-> 0, symbol_count |-> 1, failing |-> {}, fails |-> FALSE]

(* _assess_completeness, lines 103-210 *)
_assess_completeness(d) ==
    LET company == IF truthy(d.company_info) THEN d.company_info.filled ELSE 0
        price == IF truthy(d.current_price) THEN d.current_price.filled ELSE 0
        hist == IF d.historical_prices.count >= 30 THEN 2
                ELSE IF d.historical_prices.count >= 7 THEN 1 ELSE 0
        st == d.financial_statements
        recent == IF st.recent >= 2 THEN 2 ELSE IF st.recent >= 1 THEN 1 ELSE 0
        stmts == IF st.count > 0 THEN recent + st.components ELSE 0
        stmt_fields == IF st.count > 0 THEN 2 + 3 * recent ELSE 8
        total_fields == 7 + 5 + 2 + stmt_fields
        completed_fields == company + price + hist + stmts
    IN  IF "completeness" \in d.failing THEN Frac(0, 1)
        ELSE Frac(completed_fields * 100, total_fields)

(* _assess_freshness, lines 212-304 *)
_assess_freshness(d) ==
    LET price == IF truthy(d.current_price)
                 THEN LET a == d.current_price.age_days
                      IN  IF a = 0 THEN 100 ELSE IF a <= 1 THEN 90 ELSE IF a <= 3 THEN 70
                          ELSE IF a <= 7 THEN 50 ELSE 20
                 ELSE 0
        hist == IF d.historical_prices.count > 0
                THEN LET a == d.historical_prices.age_days
                     IN  IF a <= 1 THEN 100 ELSE IF a <= 3 THEN 80
                         ELSE IF a <= 7 THEN 60 ELSE 30
                ELSE 0
        stmts == IF d.financial_statements.count > 0
                 THEN LET a == d.financial_statements.age_days
                      IN  IF a <= 90 THEN 100 ELSE IF a <= 180 THEN 80
                          ELSE IF a <= 365 THEN 60 ELSE IF a <= 730 THEN 40 ELSE 20
                 ELSE 0
        overall == LET h == d.age_hours
                   IN  IF h <= 1 THEN 100 ELSE IF h <= 6 THEN 90 ELSE IF h <= 24 THEN 70
                       ELSE IF h <= 72 THEN 50 ELSE 30
    IN  IF "freshness" \in d.failing THEN Frac(0, 1)
        ELSE mean(<<Frac(price, 1), Frac(hist, 1), Frac(stmts, 1), Frac(overall, 1)>>)

(* _assess_accuracy, lines 306-368 *)
_assess_accuracy(d) ==
    LET price == IF truthy(d.current_price)
                 THEN <<Frac(validated(d.current_price.penalty), 1)>> ELSE <<>>
        hist == IF d.historical_prices.count > 0
                THEN <<Frac(d.historical_prices.valid * 100, d.historical_prices.count)>>
                ELSE <<>>
        stmts == IF d.financial_statements.count > 0
                 THEN <<Frac(d.financial_statements.valid * 100,
                             d.financial_statements.count)>>
                 ELSE <<>>
        company == IF truthy(d.company_info)
                   THEN <<Frac(validated(d.company_info.penalty), 1)>> ELSE <<>>
    IN  IF "accuracy" \in d.failing THEN Frac(0, 1)
        ELSE mean_or_zero(price \o hist \o stmts \o company)

assess_consistency_semi_annual_full(d) ==
    LET iv == d.financial_statements.interval
        intervals == IF d.financial_statements.count > 1
                     THEN <<Frac(IF 80 <= iv /\ iv <= 100 THEN 100
                                 ELSE IF 350 <= iv /\ iv <= 380 THEN 100
                                 ELSE IF 160 <= iv /\ iv <= 200 THEN 100 ELSE 70, 1)>>
                     ELSE <<>>
    IN  IF "consistency" \in d.failing THEN Frac(0, 1)
        ELSE mean(<<Frac(IF d.symbol_count = 1 THEN 100 ELSE 50, 1)>> \o intervals)

assess_consistency_total(d) ==
    LET parts == (IF truthy(d.company_info) THEN 1 ELSE 0)
                 + (IF truthy(d.current_price) THEN 1 ELSE 0)
                 + d.historical_prices.count + d.financial_statements.count
    IN  Frac((IF parts > 0 /\ d.symbol_count = 1 THEN 100 ELSE 50)
             + (IF d.historical_prices.count > 1 THEN 100 ELSE 0)
             + (IF d.financial_statements.count > 1 THEN 100 ELSE 0), 1)

(* _assess_consistency, lines 370-474 *)
_assess_consistency(d) ==
    LET parts == (IF truthy(d.company_info) THEN 1 ELSE 0)
                 + (IF truthy(d.current_price) THEN 1 ELSE 0)
                 + d.historical_prices.count + d.financial_statements.count
        symbols_ok == IF parts > 0 /\ d.symbol_count = 1 THEN 100 ELSE 50
        gaps == IF d.historical_prices.count > 1
                THEN <<Frac(IF d.historical_prices.gaps = 0 THEN 100
                            ELSE IF d.historical_prices.gaps <= 2 THEN 80 ELSE 60, 1)>>
                ELSE <<>>
        iv == d.financial_statements.interval
        intervals == IF d.financial_statements.count > 1
                     THEN <<Frac(IF 80 <= iv /\ iv <= 100 THEN 100
                                 ELSE IF 350 <= iv /\ iv <= 380 THEN 100
                                 ELSE IF 160 <= iv /\ iv <= 200 THEN 90 ELSE 70, 1)>>
                     ELSE <<>>
        outliers == IF d.historical_prices.count > 10
                    THEN <<Frac(IF d.historical_prices.outliers <= 5 THEN 100
                                ELSE IF d.historical_prices.outliers <= 10 THEN 80
                                ELSE 60, 1)>>
                    ELSE <<>>
    IN  IF "consistency" \in d.failing THEN Frac(0, 1)
        ELSE mean(<<Frac(symbols_ok, 1)>> \o gaps \o intervals \o outliers)

(* DataQualityMetrics.validate_score_range, on hundredths *)
validate_score_range(v) == 0 <= v /\ v <= 10000

quality_weights_even == [completeness |-> 3, freshness |-> 3, accuracy |-> 2, consistency |-> 2]

(* The weights of lines 38-43, in tenths *)
quality_weights == [completeness |-> 4, freshness |-> 3, accuracy |-> 2, consistency |-> 1]

Scores(quality, completeness, freshness, accuracy, consistency, defaulted) ==
    [kind |-> "DataQualityMetrics", quality_score |-> quality,
     completeness_score |-> completeness, freshness_score |-> freshness,
     accuracy_score |-> accuracy, consistency_score |-> consistency,
     defaulted |-> defaulted]

assess_scores_aborting(d) == Scores(0, 0, 0, 0, 0, TRUE)

(* assess_stock_data_quality, lines 45-101: the four assessments, the
   weighted sum, the report with its validated scores; any exception on the
   way gives the default report.  consistency_score is the internal value,
   which the report does not carry. *)
assess_scores(d) ==
    LET c == _assess_completeness(d)
        f == _assess_freshness(d)
        a == _assess_accuracy(d)
        k == _assess_consistency(d)
        sum == FracTotal(<<Frac(c.n * quality_weights.completeness, c.d),
                           Frac(f.n * quality_weights.freshness, f.d),
                           Frac(a.n * quality_weights.accuracy, a.d),
                           Frac(k.n * quality_weights.consistency, k.d)>>)
        quality_score == Frac(sum.n, sum.d * 10)
        built == Scores(round2(quality_score), round2(c), round2(f), round2(a),
                        round2(k), FALSE)
    IN  IF d.fails
           \/ ~validate_score_range(built.quality_score)
           \/ ~validate_score_range(built.completeness_score)
           \/ ~validate_score_range(built.freshness_score)
           \/ ~validate_score_range(built.accuracy_score)
        THEN Scores(0, 0, 0, 0, IF d.fails THEN 0 ELSE built.consistency_score, TRUE)
        ELSE built

(* The issue a failed sub-assessment appends in its handler *)
failure_issue ==
    [completeness |-> "Completeness assessment failed",
     freshness |-> "Freshness assessment failed",
     accuracy |-> "Accuracy assessment failed",
     consistency |-> "Consistency assessment failed"]

(* The issues of the returned report, by kind.  Tracked: the issue each
   failed sub-assessment appends in its handler (lines 209, 303, 367, 473),
   the issues of the current price's validation (line 324), the summary of the
   historical validation (lines 336-338), and the single issue of the default
   report (line 99).  The other kinds (missing fields, ages, gaps) are left
   out. *)
assess_issues(d) ==
    LET failed == {failure_issue[dim] : dim \in d.failing}
        price == IF truthy(d.current_price) /\ "accuracy" \notin d.failing
                 THEN d.current_price.issues ELSE {}
        hist == IF /\ d.historical_prices.count > 0
                   /\ "accuracy" \notin d.failing
                   /\ d.historical_prices.valid * 100 < 90 * d.historical_prices.count
                THEN {"Historical price validation issues"} ELSE {}
        iv == d.financial_statements.interval
        irregular == IF /\ d.financial_statements.count > 1
                        /\ "consistency" \notin d.failing
                        /\ ~(80 <= iv /\ iv <= 100)
                        /\ ~(350 <= iv /\ iv <= 380)
                        /\ ~(160 <= iv /\ iv <= 200)
                     THEN {"Irregular financial statement intervals"} ELSE {}
    IN  IF assess_scores(d).defaulted THEN {"Assessment failed"}
        ELSE failed \cup price \cup hist \cup irregular

outside_quality == <<service_vars, batch_vars, rate_vars, cache_log, probe_vars, alpha_vars>>

(* A record is handed to the assessor *)
quality_given(d) ==
    /\ assessed = None
    /\ assessed' = d
    /\ UNCHANGED <<quality_report, quality_issues, priced, outside_quality>>

(* The assessor returns *)
quality_assessed ==
    /\ assessed # None
    /\ quality_report = None
    /\ quality_report' = assess_scores(assessed)
    /\ quality_issues' = assess_issues(assessed)
    /\ UNCHANGED <<assessed, priced, outside_quality>>

InitQuality ==
    /\ Init
    /\ enable_caching /\ enable_quality_assessment
    /\ \A src \in RateLimited : ~is_limit_exceeded(rate_limits[src])
    /\ \A k \in FullKeys : redis[k] = None

NextQuality ==
    \/ \E d \in Measured \cup {MeasuredEmpty} : quality_given(d)
    \/ quality_assessed

SpecQuality == InitQuality /\ [][NextQuality]_vars

(* C20: for every record, the empty one included, the assessor returns a
   report whose overall score and whose completeness, freshness and accuracy
   scores lie between 0 and 100, as does the consistency score it computed;
   the empty record gets completeness 0 and the overall score 12.50. *)
InRange(v) == 0 <= v /\ v <= 10000

C20_ScoresInRange ==
    quality_report # None =>
        /\ quality_report.kind = "DataQualityMetrics"
        /\ InRange(quality_report.quality_score)
        /\ InRange(quality_report.completeness_score)
        /\ InRange(quality_report.freshness_score)
        /\ InRange(quality_report.accuracy_score)
        /\ InRange(quality_report.consistency_score)
        /\ assessed = MeasuredEmpty =>
              quality_report = Scores(1250, 0, 2500, 0, 5000, FALSE)

C20_Witness ==
    /\ assessed = MeasuredEmpty
    /\ quality_report # None
    /\ quality_report.completeness_score = 0
    /\ quality_report.quality_score = 1250

(* C21: the overall score of a report is 0.4 * completeness + 0.3 * freshness
   + 0.2 * accuracy + 0.1 * consistency of the sub-scores computed for the
   assessed record, rounded to two decimals; it is within 0.01 of the same sum
   over the rounded sub-scores the report carries. *)
Weighted(c, f, a, k) ==
    LET sum == FracTotal(<<Frac(4 * c.n, c.d), Frac(3 * f.n, f.d),
                           Frac(2 * a.n, a.d), Frac(1 * k.n, k.d)>>)
    IN  (200 * sum.n + 10 * sum.d) \div (20 * sum.d)

Reported == quality_report # None /\ ~quality_report.defaulted

C21_WeightedSum ==
    Reported =>
        /\ quality_report.quality_score =
              Weighted(_assess_completeness(assessed), _assess_freshness(assessed),
                       _assess_accuracy(assessed), _assess_consistency(assessed))
        /\ LET carried == 4 * quality_report.completeness_score
                          + 3 * quality_report.freshness_score
                          + 2 * quality_report.accuracy_score
                          + 1 * quality_report.consistency_score
               off == 10 * quality_report.quality_score - carried
           IN  -10 <= off /\ off <= 10

C21_Witness ==
    /\ Reported
    /\ assessed.failing = {}
    /\ quality_report.completeness_score > quality_report.freshness_score
    /\ quality_report.freshness_score > quality_report.accuracy_score
    /\ quality_report.accuracy_score > 0
    /\ quality_report.consistency_score < 10000
    /\ quality_report.quality_score > quality_report.accuracy_score

(* C22: when an exception is raised in one of the four sub-assessments, that
   dimension scores 0 and its failure is among the issues, while every other
   dimension has the score it has for the same record without the failure,
   and the overall score is the weighted sum of these. *)
Unfailing(d) == [d EXCEPT !.failing = {}]

Expected(dim, d) ==
    IF dim \in d.failing THEN Frac(0, 1)
    ELSE CASE dim = "completeness" -> _assess_completeness(Unfailing(d))
           [] dim = "freshness" -> _assess_freshness(Unfailing(d))
           [] dim = "accuracy" -> _assess_accuracy(Unfailing(d))
           [] dim = "consistency" -> _assess_consistency(Unfailing(d))

C22_FailedDimensionAlone ==
    (quality_report # None /\ ~assessed.fails) =>
        /\ \A dim \in assessed.failing : failure_issue[dim] \in quality_issues
        /\ \A dim \in Dimensions \ assessed.failing : failure_issue[dim] \notin quality_issues
        /\ quality_report.completeness_score = round2(Expected("completeness", assessed))
        /\ quality_report.freshness_score = round2(Expected("freshness", assessed))
        /\ quality_report.accuracy_score = round2(Expected("accuracy", assessed))
        /\ quality_report.consistency_score = round2(Expected("consistency", assessed))
        /\ quality_report.quality_score =
              Weighted(Expected("completeness", assessed), Expected("freshness", assessed),
                       Expected("accuracy", assessed), Expected("consistency", assessed))

C22_Witness ==
    /\ Reported
    /\ assessed.failing = {"accuracy"}
    /\ _assess_accuracy(Unfailing(assessed)).n > 0
    /\ quality_report.accuracy_score = 0
    /\ "Accuracy assessment failed" \in quality_issues
    /\ quality_report.completeness_score > 0
    /\ quality_report.freshness_score > 0
    /\ quality_report.quality_score > 0

----------------------------------------------------------------------------
(* The assessor on records given by their price points *)

Opens == {None, Number(8), Number(10)}
Highs == {None, Number(12)}
Lows == {Number(9)}
Closes == {Number(11), Number(13)}
Volumes == {None, Number(100)}

PricePoints ==
    {PricePoint(o, h, l, c, v) : o \in Opens, h \in Highs, l \in Lows, c \in Closes,
                                 v \in Volumes}

HistoryPoints ==
    {PricePoint(Number(10), Number(12), Number(9), Number(11), Number(100)),
     PricePoint(Number(8), Number(12), Number(9), Number(11), Number(100)),
     PricePoint(Number(10), Number(12), Number(9), Number(13), Number(100))}

PriceHistories ==
    {<<>>} \cup {<<p>> : p \in HistoryPoints}
           \cup {<<p, q>> : p \in HistoryPoints, q \in HistoryPoints}

(* A record that holds a current price of today and historical prices up to
   yesterday, and nothing else, is handed to the assessor *)
quality_given_prices(current, points) ==
    /\ assessed = None
    /\ assessed' = [MeasuredEmpty EXCEPT !.current_price = measured_price(current, 0),
                                         !.historical_prices = measured_history(points, 1)]
    /\ priced' = [current |-> current, points |-> points]
    /\ UNCHANGED <<quality_report, quality_issues, outside_quality>>

NextPrices ==
    \/ \E current \in PricePoints \cup {None}, points \in PriceHistories :
          quality_given_prices(current, points)
    \/ quality_assessed

SpecPrices == InitQuality /\ [][NextPrices]_vars

(* C23: a price point, current or historical, whose open, high, low and close
   are all present and break low <= open <= high or low <= close <= high
   lowers the accuracy score below 100 and leaves an issue naming the broken
   relationship in the report. *)
Breaks(p) ==
    /\ p.kind # "None"
    /\ nonzero(p.open_price) /\ nonzero(p.high_price)
    /\ nonzero(p.low_price) /\ nonzero(p.close_price)
    /\ \/ ~(p.low_price.v <= p.open_price.v /\ p.open_price.v <= p.high_price.v)
       \/ ~(p.low_price.v <= p.close_price.v /\ p.close_price.v <= p.high_price.v)

RelationshipIssues ==
    {"Invalid price relationship: open not between high/low",
     "Invalid price relationship: close not between high/low"}

C23_ViolationDeductedAndReported ==
    (/\ quality_report # None
     /\ priced # None
     /\ \/ Breaks(priced.current)
        \/ \E i \in 1..Len(priced.points) : Breaks(priced.points[i]))
    => /\ quality_report.accuracy_score < 10000
       /\ quality_issues \cap RelationshipIssues # {}

----------------------------------------------------------------------------
(* Operations that keep no state of their own.  Each call is recorded in
   applied with its arguments and what it returned. *)

outside_applied ==
    <<service_vars, batch_vars, rate_vars, cache_log, quality_vars, health_pc,
      health_status, alpha_vars>>

(* DataQualityService.quality_thresholds, lines 30-35, in hundredths *)
quality_thresholds == [excellent |-> 9000, good |-> 7500, fair |-> 6000, poor |-> 4000]

get_quality_grade_rounding(quality_score) ==
    IF quality_score >= 8950 THEN "A"
    ELSE IF quality_score >= 7450 THEN "B"
    ELSE IF quality_score >= 5950 THEN "C"
    ELSE IF quality_score >= 3950 THEN "D"
    ELSE "F"

(* DataQualityService.get_quality_grade, lines 584-603; the score in
   hundredths *)
get_quality_grade(quality_score) ==
    IF quality_score >= quality_thresholds.excellent THEN "A"
    ELSE IF quality_score >= quality_thresholds.good THEN "B"
    ELSE IF quality_score >= quality_thresholds.fair THEN "C"
    ELSE IF quality_score >= quality_thresholds.poor THEN "D"
    ELSE "F"

(* Scores at, just below and between the boundaries, and out of range *)
GradedScores ==
    {-100, 0, 2500, 3999, 4000, 4500, 5999, 6000, 6500, 7499, 7500, 8000, 8999, 9000,
     9500, 10000, 12000}

(* Two scores are graded *)
grade_scores(x, y) ==
    /\ applied = <<>>
    /\ applied' = <<[op |-> "get_quality_grade", x |-> x, y |-> y,
                     grade_x |-> get_quality_grade(x), grade_y |-> get_quality_grade(y)]>>
    /\ UNCHANGED outside_applied

NextGrade == \E x \in GradedScores, y \in GradedScores : grade_scores(x, y)

SpecGrade == InitQuality /\ [][NextGrade]_vars

(* C24: get_quality_grade gives A from 90, B from 75 up to 90, C from 60 up to
   75, D from 40 up to 60 and F below; so a score that is at least another
   score never gets the lower grade. *)
Rank(grade) ==
    CASE grade = "A" -> 4 [] grade = "B" -> 3 [] grade = "C" -> 2 [] grade = "D" -> 1
      [] grade = "F" -> 0

GradeOf(score) ==
    CASE score >= 9000 -> "A"
      [] 7500 <= score /\ score < 9000 -> "B"
      [] 6000 <= score /\ score < 7500 -> "C"
      [] 4000 <= score /\ score < 6000 -> "D"
      [] OTHER -> "F"

C24_GradeBoundaries ==
    \A i \in DOMAIN applied :
        applied[i].op = "get_quality_grade" =>
            /\ applied[i].grade_x = GradeOf(applied[i].x)
            /\ applied[i].grade_y = GradeOf(applied[i].y)
            /\ applied[i].x >= applied[i].y =>
                  Rank(applied[i].grade_x) >= Rank(applied[i].grade_y)

C24_Witness ==
    /\ applied # <<>>
    /\ applied[1].op = "get_quality_grade"
    /\ applied[1].x = 9000 /\ applied[1].grade_x = "A"
    /\ applied[1].y = 8999 /\ applied[1].grade_y = "B"

----------------------------------------------------------------------------
(* DataService.get_service_health, lines 434-512.  An action runs from one
   await to the next; applied records what each sub-check came to. *)

outside_health ==
    <<service_vars, batch_vars, rate_vars, cache_log, quality_vars, alpha_vars>>

Services == {"yahoo_finance", "alpha_vantage", "cache"}

(* What a sub-check can come to: health_check returns True or False (the
   three health_check methods catch every exception themselves), or an
   exception leaves "async with self.alpha_vantage_client" on entry or exit *)
HealthOutcomes(service) ==
    IF service = "alpha_vantage" THEN {"true", "false", "raise"} ELSE {"true", "false"}

(* APIRateLimit.requests_remaining *)
requests_remaining(rate_limit) ==
    IF rate_limit.requests_limit - rate_limit.requests_made > 0
    THEN rate_limit.requests_limit - rate_limit.requests_made ELSE 0

(* The entry of a source: lines 447-461 and 464-479 *)
source_entry(outcome, rate_limit) ==
    IF outcome = "raise" THEN [status |-> "error"]
    ELSE [status |-> IF outcome = "true" THEN "healthy" ELSE "unhealthy",
          requests_made |-> rate_limit.requests_made,
          requests_remaining |-> requests_remaining(rate_limit)]

(* The entry of the cache: lines 482-494 *)
cache_entry(outcome, stats) ==
    IF outcome = "raise" THEN [status |-> "error"]
    ELSE [status |-> IF outcome = "true" THEN "healthy" ELSE "unhealthy",
          stats |-> stats]

overall_status_errors_only(services) ==
    IF \E name \in Services : services[name] # None /\ services[name].status = "error"
    THEN "degraded" ELSE "healthy"

(* Lines 496-501 *)
overall_status(services) ==
    LET service_statuses ==
            {services[name].status : name \in {n \in Services : services[n] # None}}
    IN  IF "error" \in service_statuses THEN "degraded"
        ELSE IF "unhealthy" \in service_statuses THEN "degraded"
        ELSE "healthy"

(* The call, up to the Yahoo Finance health check: lines 441-449 *)
get_service_health_call ==
    /\ health_pc = "idle"
    /\ health_status' = [overall_status |-> "healthy",
                         services |-> [name \in Services |-> None],
                         metrics |-> metrics]
    /\ applied' = <<>>
    /\ health_pc' = "yahoo_finance"
    /\ UNCHANGED outside_health

(* The Yahoo Finance check returns; on to the Alpha Vantage check *)
get_service_health_yahoo(outcome) ==
    /\ health_pc = "yahoo_finance"
    /\ health_status' = [health_status EXCEPT !.services.yahoo_finance =
                             source_entry(outcome, rate_limits[YAHOO_FINANCE])]
    /\ applied' = Append(applied, [op |-> "health_check", service |-> "yahoo_finance",
                                   outcome |-> outcome])
    /\ health_pc' = "alpha_vantage"
    /\ UNCHANGED outside_health

(* The Alpha Vantage check returns; on to the cache check if there is a
   cache, to the overall status and the return otherwise *)
get_service_health_alpha(outcome) ==
    LET services == [health_status.services EXCEPT !.alpha_vantage =
                         source_entry(outcome, rate_limits[ALPHA_VANTAGE])]
    IN  /\ health_pc = "alpha_vantage"
        /\ applied' = Append(applied, [op |-> "health_check",
                                       service |-> "alpha_vantage", outcome |-> outcome])
        /\ IF enable_caching
           THEN /\ health_status' = [health_status EXCEPT !.services = services]
                /\ health_pc' = "cache"
           ELSE /\ health_status' = [health_status EXCEPT
                                        !.services = services,
                                        !.overall_status = overall_status(services)]
                /\ health_pc' = "done"
        /\ UNCHANGED outside_health

(* The cache check returns; the overall status and the return *)
get_service_health_cache(outcome) ==
    LET services == [health_status.services EXCEPT !.cache =
                         cache_entry(outcome, cache_stats)]
    IN  /\ health_pc = "cache"
        /\ applied' = Append(applied, [op |-> "health_check", service |-> "cache",
                                       outcome |-> outcome])
        /\ health_status' = [health_status EXCEPT
                                !.services = services,
                                !.overall_status = overall_status(services)]
        /\ health_pc' = "done"
        /\ UNCHANGED outside_health

NextHealth ==
    \/ get_service_health_call
    \/ \E outcome \in HealthOutcomes("yahoo_finance") : get_service_health_yahoo(outcome)
    \/ \E outcome \in HealthOutcomes("alpha_vantage") : get_service_health_alpha(outcome)
    \/ \E outcome \in HealthOutcomes("cache") : get_service_health_cache(outcome)

SpecHealth == Init /\ [][NextHealth]_vars

(* C25: the report of get_service_health holds an entry for Yahoo Finance,
   for Alpha Vantage and, when caching is enabled, for the cache, each with
   the status its sub-check came to (an exception gives "error" and the later
   sub-checks are still made); overall_status is "degraded" exactly when one
   of these sub-checks came to unhealthy or error, and "healthy" otherwise. *)
Performed == {applied[i].service : i \in DOMAIN applied}

OutcomeOf(service) ==
    LET i == CHOOSE j \in DOMAIN applied : applied[j].service = service
    IN  applied[i].outcome

StatusOf(outcome) ==
    CASE outcome = "true" -> "healthy" [] outcome = "false" -> "unhealthy"
      [] outcome = "raise" -> "error"

C25_OverallStatus ==
    health_pc = "done" =>
        /\ Performed = IF enable_caching THEN Services
                       ELSE {"yahoo_finance", "alpha_vantage"}
        /\ \A name \in Services :
              IF name \in Performed
              THEN health_status.services[name].status = StatusOf(OutcomeOf(name))
              ELSE health_status.services[name] = None
        /\ health_status.overall_status \in {"healthy", "degraded"}
        /\ health_status.overall_status = "degraded"
              <=> \E name \in Performed : OutcomeOf(name) \in {"false", "raise"}

C25_Witness ==
    /\ health_pc = "done"
    /\ enable_caching
    /\ health_status.services.yahoo_finance.status = "healthy"
    /\ health_status.services.alpha_vantage.status = "error"
    /\ health_status.services.cache.status = "unhealthy"
    /\ health_status.overall_status = "degraded"

----------------------------------------------------------------------------
(* DataService.search_symbols: how the results of the two sources are put
   together, lines 229-257 *)

Queries == {"AAPL", "aapl"}

(* A match of YahooFinanceClient.search_symbols, lines 385-390 *)
YahooMatch(sym) ==
    [symbol |-> sym, name |-> "name of " \o sym, sector |-> "Technology",
     industry |-> "Consumer Electronics"]

(* A match of AlphaVantageClient.search_symbols, lines 538-548 *)
AlphaMatch(sym) ==
    [symbol |-> sym, name |-> "name of " \o sym, type |-> "Equity",
     region |-> "United States", market_open |-> "09:30", market_close |-> "16:00",
     timezone |-> "UTC-04", currency |-> "USD", match_score |-> "1.0000"]

(* The dict lines 248-253 append for a match of Alpha Vantage *)
standard_format(match) ==
    [symbol |-> match.symbol, name |-> match.name, type |-> match.type,
     region |-> match.region]

(* What YahooFinanceClient.search_symbols returns: the one symbol the query
   spells, or nothing *)
YahooResults(query) == {<<>>, <<YahooMatch(upper(query))>>}

AlphaSymbols == {"AAPL", "APLE", "AAPL.LON"}

(* What AlphaVantageClient.search_symbols returns: best matches, no symbol
   twice *)
AlphaResults ==
    {<<>>} \cup {<<AlphaMatch(a)>> : a \in AlphaSymbols}
           \cup {<<AlphaMatch(p[1]), AlphaMatch(p[2])>> :
                    p \in {q \in AlphaSymbols \X AlphaSymbols : q[1] # q[2]}}

Holds(results, match) == \E i \in DOMAIN results : results[i] = match

(* Lines 246-253: "for result in av_results: if result not in results:
   results.append({...})" *)
RECURSIVE extend_results(_, _)
extend_results(results, av_results) ==
    IF av_results = <<>> THEN results
    ELSE extend_results(
             IF ~Holds(results, Head(av_results))
             THEN Append(results, standard_format(Head(av_results)))
             ELSE results,
             Tail(av_results))

(* Lines 229-257, the limiter's answers given *)
merged_results(yahoo_allowed, yahoo_results, alpha_allowed, av_results) ==
    LET results == IF yahoo_allowed THEN yahoo_results ELSE <<>>
    IN  IF Len(results) < 5 /\ alpha_allowed
        THEN extend_results(results, av_results)
        ELSE results

(* One search *)
search_symbols_merge(query, yahoo_allowed, yahoo_results, alpha_allowed, av_results) ==
    /\ applied = <<>>
    /\ applied' = <<[op |-> "search_symbols", query |-> query,
                     yahoo_results |-> IF yahoo_allowed THEN yahoo_results ELSE <<>>,
                     av_results |-> IF alpha_allowed THEN av_results ELSE <<>>,
                     returned |-> merged_results(yahoo_allowed, yahoo_results,
                                                 alpha_allowed, av_results)]>>
    /\ UNCHANGED outside_applied

NextSearch ==
    \E query \in Queries, yahoo_allowed \in BOOLEAN, alpha_allowed \in BOOLEAN,
       av_results \in AlphaResults :
         \E yahoo_results \in YahooResults(query) :
            search_symbols_merge(query, yahoo_allowed, yahoo_results, alpha_allowed,
                                 av_results)

SpecSearch == Init /\ [][NextSearch]_vars

(* C26: the list search_symbols returns holds no symbol twice, also when both
   sources return a match for the same symbol. *)
C26_SymbolOnce ==
    \A n \in DOMAIN applied :
        applied[n].op = "search_symbols" =>
            \A i \in DOMAIN applied[n].returned, j \in DOMAIN applied[n].returned :
                applied[n].returned[i].symbol = applied[n].returned[j].symbol => i = j

----------------------------------------------------------------------------
(* The adapters' conversion of upstream values, and the profiles built with
   it *)

(* float('nan'), as pandas hands it out for a missing number *)
NaN == [kind |-> "float", v |-> "nan"]

(* The texts Decimal() takes, with their value in hundredths; every other text
   of the model is not a number *)
decimal_literals == [t \in {"150", "12.5"} |-> IF t = "150" THEN 15000 ELSE 1250]

(* An upstream value of the Alpha Vantage JSON: absent, or a string *)
AlphaRaw == {None, Str("None"), Str(""), Str("150"), Str("12.5"), Str("-")}

(* An upstream value of the yfinance info dict: absent, NaN, or a string *)
YahooRaw == {None, NaN, Str("150"), Str("12.5"), Str("N/A")}

(* Decimal(str(value)): decimal.InvalidOperation, an ArithmeticError, for a
   text that is no number *)
to_decimal(value) ==
    IF value.kind = "str" /\ value.v \in DOMAIN decimal_literals
    THEN [raised |-> "", value |-> Decimal(decimal_literals[value.v])]
    ELSE IF value.kind = "float"
    THEN [raised |-> "", value |-> Decimal("NaN")]
    ELSE [raised |-> "InvalidOperation", value |-> None]

(* int(float(str(value))): ValueError for a text that is no number *)
to_int(value) ==
    IF value.kind = "str" /\ value.v \in DOMAIN decimal_literals
    THEN [raised |-> "", value |-> [kind |-> "int", v |-> decimal_literals[value.v] \div 100]]
    ELSE [raised |-> "ValueError", value |-> None]

(* "except (ValueError, TypeError): return None" *)
caught(r) ==
    IF r.raised \in {"ValueError", "TypeError"} THEN [raised |-> "", value |-> None] ELSE r

(* AlphaVantageClient._safe_decimal, lines 587-594 *)
alpha_safe_decimal(value) ==
    IF value = None \/ value = Str("None") \/ value = Str("")
    THEN [raised |-> "", value |-> None]
    ELSE caught(to_decimal(value))

(* AlphaVantageClient._safe_int, lines 596-603 *)
alpha_safe_int(value) ==
    IF value = None \/ value = Str("None") \/ value = Str("")
    THEN [raised |-> "", value |-> None]
    ELSE caught(to_int(value))

(* YahooFinanceClient._safe_decimal, lines 351-358 *)
yahoo_safe_decimal(value) ==
    IF value = None \/ value = NaN
    THEN [raised |-> "", value |-> None]
    ELSE caught(to_decimal(value))

(* The profile with the fields the model follows *)
Profile(sym, market_cap, trailing_pe, employees) ==
    [kind |-> "CompanyInfo", symbol |-> sym, company_name |-> "name of " \o sym,
     market_cap |-> market_cap, trailing_pe |-> trailing_pe, employees |-> employees]

(* AlphaVantageClient.get_company_overview, lines 181-201, the response given *)
get_company_overview(sym, data) ==
    LET market_cap == alpha_safe_decimal(data.MarketCapitalization)
        trailing_pe == alpha_safe_decimal(data.TrailingPE)
        employees == alpha_safe_int(data.FullTimeEmployees)
    IN  IF market_cap.raised # "" \/ trailing_pe.raised # "" \/ employees.raised # ""
        THEN None
        ELSE Profile(upper(sym), market_cap.value, trailing_pe.value, employees.value)

(* YahooFinanceClient._get_company_info, lines 115-136, the info dict given;
   employees is passed on as it comes *)
_get_company_info(sym, info) ==
    LET market_cap == yahoo_safe_decimal(info.marketCap)
        trailing_pe == yahoo_safe_decimal(info.trailingPE)
    IN  IF market_cap.raised # "" \/ trailing_pe.raised # ""
        THEN None
        ELSE Profile(upper(sym), market_cap.value, trailing_pe.value,
                     [kind |-> "int", v |-> 150])

(* A profile is built from an Alpha Vantage response *)
overview_built(data) ==
    /\ applied = <<>>
    /\ applied' = <<[op |-> "get_company_overview", source |-> ALPHA_VANTAGE,
                     raw |-> data, returned |-> get_company_overview("AAPL", data)]>>
    /\ UNCHANGED outside_applied

(* A profile is built from a Yahoo Finance info dict *)
company_info_built(info) ==
    /\ applied = <<>>
    /\ applied' = <<[op |-> "_get_company_info", source |-> YAHOO_FINANCE,
                     raw |-> [MarketCapitalization |-> info.marketCap,
                              TrailingPE |-> info.trailingPE,
                              FullTimeEmployees |-> Str("150")],
                     returned |-> _get_company_info("AAPL", info)]>>
    /\ UNCHANGED outside_applied

NextParse ==
    \/ \E data \in [MarketCapitalization : AlphaRaw, TrailingPE : AlphaRaw,
                    FullTimeEmployees : AlphaRaw] : overview_built(data)
    \/ \E info \in [marketCap : YahooRaw, trailingPE : YahooRaw] : company_info_built(info)

SpecParse == InitQuality /\ [][NextParse]_vars

(* C28: a numeric upstream field that is missing or is no number gives null
   for that field alone: the profile is still built, and its other fields
   hold the numbers upstream gave. *)
NoNumber(value) == ~(value.kind = "str" /\ value.v \in {"150", "12.5"})

FieldAsGiven(field, value) ==
    IF NoNumber(value) THEN field = None
    ELSE field.kind # "None"

C28_FieldAloneNull ==
    \A n \in DOMAIN applied :
        applied[n].op \in {"get_company_overview", "_get_company_info"} =>
            /\ applied[n].returned # None
            /\ FieldAsGiven(applied[n].returned.market_cap,
                            applied[n].raw.MarketCapitalization)
            /\ FieldAsGiven(applied[n].returned.trailing_pe, applied[n].raw.TrailingPE)
            /\ FieldAsGiven(applied[n].returned.employees,
                            applied[n].raw.FullTimeEmployees)

----------------------------------------------------------------------------
(* The adapters' full-record fetch by its sub-fetches.  A sub-fetch comes to
   "ok" (it returns what upstream holds), "empty" (upstream holds nothing) or
   "raise" (an exception inside it, which its own handler turns into None or
   an empty list). *)

SubFetchOutcomes == {"ok", "empty", "raise"}

(* A sub-fetch that returns an object or None *)
fetched_or_none(outcome, value) == IF outcome = "ok" THEN value ELSE None

(* A sub-fetch that returns a list *)
fetched_or_empty(outcome, values) == IF outcome = "ok" THEN values ELSE <<>>

(* A statement period with the parts that were found *)
StatementPeriod(sym, src, income, balance, cash_flow) ==
    [kind |-> "FinancialStatement", symbol |-> sym, data_source |-> src,
     income_statement |-> income, balance_sheet |-> balance,
     cash_flow_statement |-> cash_flow]

Part(name) == [kind |-> name]

yahoo_all_or_nothing(sym, got, t) ==
    IF \A part \in DOMAIN got : got[part] = "ok"
    THEN StockData(upper(sym), CompanyInfo(upper(sym)), StockPrice(upper(sym), t),
                   <<StockPrice(upper(sym), t)>>,
                   <<StatementPeriod(upper(sym), YAHOO_FINANCE, Part("IncomeStatement"),
                                     Part("BalanceSheet"), Part("CashFlowStatement"))>>, t)
    ELSE None

(* YahooFinanceClient.get_stock_data, lines 53-103: the four sub-fetches are
   gathered, and the record is built from what they returned *)
yahoo_stock_data_of(sym, got, t) ==
    LET company_info == fetched_or_none(got.company_info, CompanyInfo(upper(sym)))
        historical_prices == fetched_or_empty(got.historical_prices,
                                              <<StockPrice(upper(sym), t)>>)
        current_price == fetched_or_none(got.current_price, StockPrice(upper(sym), t))
        financial_statements ==
            fetched_or_empty(got.financial_statements,
                             <<StatementPeriod(upper(sym), YAHOO_FINANCE,
                                               Part("IncomeStatement"),
                                               Part("BalanceSheet"),
                                               Part("CashFlowStatement"))>>)
    IN  StockData(upper(sym), company_info, current_price, historical_prices,
                  financial_statements, t)

(* AlphaVantageClient.get_comprehensive_data, lines 436-512: the five
   requests one after the other, the statements grouped by period (one period
   in the model), the current price taken from the daily prices *)
alpha_stock_data_of(sym, got, t) ==
    LET company_info == fetched_or_none(got.company_overview, CompanyInfo(upper(sym)))
        income_statements == fetched_or_empty(got.income_statement,
                                              <<Part("IncomeStatement")>>)
        balance_sheets == fetched_or_empty(got.balance_sheet, <<Part("BalanceSheet")>>)
        cash_flows == fetched_or_empty(got.cash_flow, <<Part("CashFlowStatement")>>)
        daily_prices == fetched_or_empty(got.daily_prices, <<StockPrice(upper(sym), t)>>)
        first_or_none(xs) == IF xs = <<>> THEN None ELSE xs[1]
        periods == IF income_statements = <<>> /\ balance_sheets = <<>>
                      /\ cash_flows = <<>>
                   THEN <<>>
                   ELSE <<StatementPeriod(upper(sym), ALPHA_VANTAGE,
                                          first_or_none(income_statements),
                                          first_or_none(balance_sheets),
                                          first_or_none(cash_flows))>>
    IN  StockData(upper(sym), company_info, first_or_none(daily_prices), daily_prices,
                  periods, t)

(* A full record is fetched from Yahoo Finance *)
yahoo_full_fetch(got) ==
    /\ applied = <<>>
    /\ applied' = <<[op |-> "get_stock_data", source |-> YAHOO_FINANCE, got |-> got,
                     returned |-> yahoo_stock_data_of("AAPL", got, now)]>>
    /\ UNCHANGED outside_applied

(* A full record is fetched from Alpha Vantage *)
alpha_full_fetch(got) ==
    /\ applied = <<>>
    /\ applied' = <<[op |-> "get_comprehensive_data", source |-> ALPHA_VANTAGE,
                     got |-> got,
                     returned |-> alpha_stock_data_of("AAPL", got, now)]>>
    /\ UNCHANGED outside_applied

NextFetch ==
    \/ \E got \in [company_info : SubFetchOutcomes,
                   historical_prices : SubFetchOutcomes,
                   current_price : SubFetchOutcomes,
                   financial_statements : SubFetchOutcomes] : yahoo_full_fetch(got)
    \/ \E got \in [company_overview : SubFetchOutcomes, income_statement : SubFetchOutcomes,
                   balance_sheet : SubFetchOutcomes, cash_flow : SubFetchOutcomes,
                   daily_prices : SubFetchOutcomes] : alpha_full_fetch(got)

SpecFetch == InitQuality /\ [][NextFetch]_vars

(* C29: whatever sub-fetches fail, the adapter returns a record; each section
   whose sub-fetch succeeded holds what it fetched, each section whose
   sub-fetch failed is None or empty. *)
Present(outcome, section) == IF outcome = "ok" THEN section # None ELSE section = None

Listed(outcome, section) == IF outcome = "ok" THEN section # <<>> ELSE section = <<>>

C29_PartialRecord ==
    \A n \in DOMAIN applied :
        LET got == applied[n].got
            rec == applied[n].returned
        IN  /\ applied[n].op = "get_stock_data" =>
                /\ rec.kind = "StockData"
                /\ Present(got.company_info, rec.company_info)
                /\ Listed(got.historical_prices, rec.historical_prices)
                /\ Present(got.current_price, rec.current_price)
                /\ Listed(got.financial_statements, rec.financial_statements)
            /\ applied[n].op = "get_comprehensive_data" =>
                /\ rec.kind = "StockData"
                /\ Present(got.company_overview, rec.company_info)
                /\ Listed(got.daily_prices, rec.historical_prices)
                /\ Present(got.daily_prices, rec.current_price)
                /\ rec.financial_statements = <<>>
                      <=> "ok" \notin {got.income_statement, got.balance_sheet,
                                       got.cash_flow}
                /\ rec.financial_statements # <<>> =>
                      /\ Present(got.income_statement,
                                 rec.financial_statements[1].income_statement)
                      /\ Present(got.balance_sheet,
                                 rec.financial_statements[1].balance_sheet)
                      /\ Present(got.cash_flow,
                                 rec.financial_statements[1].cash_flow_statement)

C29_Witness ==
    /\ applied # <<>>
    /\ applied[1].op = "get_stock_data"
    /\ applied[1].got.financial_statements = "raise"
    /\ applied[1].got.company_info = "ok"
    /\ applied[1].got.current_price = "empty"
    /\ applied[1].returned.company_info # None
    /\ applied[1].returned.financial_statements = <<>>
    /\ applied[1].returned.historical_prices # <<>>

----------------------------------------------------------------------------
(* The consumer-facing operations by their exception handlers: where a
   failure arises during a call, which handler catches it, and what the call
   returns then. *)

MaxConsumerCalls == 2

ConsumerOperations ==
    {"get_stock_data", "batch_get_stock_data", "search_symbols", "get_market_data",
     "get_service_health"}

(* Where a failure can arise during a call:
   "argument":    in the operation's own statements, from its argument
                  (symbol.upper(), len(symbols), query.lower());
   "cache":       in the store while CacheService.get or health_check runs;
   "source":      in or around an adapter call;
   "conversion":  in building the MarketData object from the adapter's dict;
   "assessor":    in DataQualityService.assess_stock_data_quality;
   "cache_write": in the store while CacheService.set runs *)
ConsumerFaults(op) ==
    CASE op = "get_stock_data" ->
            {"none", "argument", "cache", "source", "assessor", "cache_write"}
      [] op = "batch_get_stock_data" -> {"none", "argument", "cache", "source"}
      [] op = "search_symbols" -> {"none", "argument", "cache", "source", "cache_write"}
      [] op = "get_market_data" -> {"none", "cache", "source", "conversion", "cache_write"}
      [] op = "get_service_health" -> {"none", "cache", "source"}

handled_nowhere(op, fault) == IF fault = "none" THEN "none" ELSE "nowhere"

(* The handler that catches the failure: the callee's own ("callee":
   CacheService.get / set / health_check, the adapters' methods,
   assess_stock_data_quality, and for the batch get_stock_data), a try
   inside the operation ("inner": data_service.py lines 194-197, 203-207,
   234-239, 243-256, 288-302, 306-321, 447-461, 464-479), or the operation's
   outermost try ("outer": lines 186-188, 264-266, 331-333, 376-378,
   505-511) *)
handled_in(op, fault) ==
    CASE fault = "none" -> "none"
      [] fault = "argument" -> "outer"
      [] fault \in {"cache", "cache_write", "assessor"} -> "callee"
      [] fault = "conversion" -> "inner"
      [] fault = "source" -> IF op = "batch_get_stock_data" THEN "callee" ELSE "inner"

(* What the operation returns from its outermost handler *)
outer_value(op) ==
    CASE op = "get_stock_data" -> "None"
      [] op = "batch_get_stock_data" -> "empty map"
      [] op = "search_symbols" -> "empty list"
      [] op = "get_market_data" -> "None"
      [] op = "get_service_health" -> "error report"

(* What the operation returns when it runs to its end: found says whether a
   source gave data *)
end_value(op, found) ==
    CASE op = "get_stock_data" -> IF found THEN "StockData" ELSE "None"
      [] op = "batch_get_stock_data" -> IF found THEN "map" ELSE "map of None"
      [] op = "search_symbols" -> IF found THEN "list" ELSE "empty list"
      [] op = "get_market_data" -> IF found THEN "MarketData" ELSE "None"
      [] op = "get_service_health" -> IF found THEN "healthy report" ELSE "degraded report"

(* One call: a failure a handler inside the operation caught leaves the call
   running (a failed source or conversion gave no data, a failed cache check
   reports unhealthy); one the outermost handler caught ends it with the
   operation's failure value; one no handler caught leaves the operation *)
consumer_call(op, fault, upstream) ==
    LET handler == handled_in(op, fault)
        found == upstream /\ fault \notin {"source", "conversion"}
                          /\ ~(op = "get_service_health" /\ fault = "cache")
    IN  CASE handler = "nowhere" -> [raised |-> TRUE, value |-> "None"]
          [] handler = "outer" -> [raised |-> FALSE, value |-> outer_value(op)]
          [] OTHER -> [raised |-> FALSE, value |-> end_value(op, found)]

outside_consumer == outside_applied

(* A consumer calls an operation *)
consumer_calls(op, fault, upstream) ==
    /\ Len(applied) < MaxConsumerCalls
    /\ applied' = Append(applied, [op |-> op, fault |-> fault, upstream |-> upstream,
                                   returned |-> consumer_call(op, fault, upstream)])
    /\ UNCHANGED outside_consumer

NextConsumer ==
    \E op \in ConsumerOperations, upstream \in BOOLEAN :
        \E fault \in ConsumerFaults(op) : consumer_calls(op, fault, upstream)

SpecConsumer == InitQuality /\ [][NextConsumer]_vars

(* C27: no call of get_stock_data, batch_get_stock_data, search_symbols,
   get_market_data or get_service_health raises, whether upstream holds
   nothing or a source, the cache or the assessor fails: the call returns
   None, an empty map or list, a map of None, or a report. *)
Absent == {"None", "empty map", "map of None", "empty list", "degraded report",
           "error report"}

C27_NeverRaises ==
    \A n \in DOMAIN applied :
        applied[n].op \in ConsumerOperations =>
            /\ ~applied[n].returned.raised
            /\ (~applied[n].upstream \/ applied[n].fault \in {"argument", "source"})
                  => applied[n].returned.value \in Absent
            /\ (applied[n].upstream
                /\ applied[n].fault \in {"none", "assessor", "cache_write"})
                  => applied[n].returned.value \notin Absent

C27_Witness ==
    /\ Len(applied) = 2
    /\ applied[1].op = "search_symbols" /\ applied[1].fault = "source"
    /\ applied[1].returned = [raised |-> FALSE, value |-> "empty list"]
    /\ applied[2].op = "get_stock_data" /\ applied[2].fault = "assessor"
    /\ applied[2].upstream
    /\ applied[2].returned = [raised |-> FALSE, value |-> "StockData"]

----------------------------------------------------------------------------
(* C30: a finished get_stock_data call with force_refresh true made no cache
   lookup and left cache_hits and cache_misses as they were, even when a live
   entry was held under the key; it went to the sources; and when it got a
   record and caching is enabled it wrote that record to the cache: once the
   store took the write, the key holds the new record in place of what it
   held before. *)
C30_Case == pc = "done" /\ force_refresh

C30_ForceRefresh ==
    C30_Case =>
        /\ Entries("cache_get") = {}
        /\ metrics.cache_hits = pre.metrics.cache_hits
        /\ metrics.cache_misses = pre.metrics.cache_misses
        /\ Contacts # {}
        /\ result.kind # "None" =>
              /\ Records # {}
              /\ enable_caching =>
                    /\ Cardinality(Entries("cache_set")) = 1
                    /\ Happened("cache_set", NoSource, {"ok"}) =>
                          /\ redis[Key].kind = "entry"
                          /\ _deserialize(redis[Key].payload) = to_json(result)
                          /\ written[Key] = result
                          /\ \A i \in Entries("cache_set") :
                                redis[Key].expires_at = trace[i].at + trace[i].arg

C30_Witness ==
    /\ C30_Case
    /\ enable_caching
    /\ Live(pre.redis, Key, pre.now)
    /\ Happened("cache_set", NoSource, {"ok"})
    /\ redis[Key] # pre.redis[Key]
    /\ _deserialize(redis[Key].payload) = to_json(result)

----------------------------------------------------------------------------
(* The rate limiter's windows over time: checks and recorded requests of
   either source, in any order, while the clock advances *)

MaxWindowTicks == 3
MaxWindowUpdates == 2

(* Steps of the clock: the first brings it exactly to Yahoo Finance's
   reset_time of the initial budgets *)
ClockSteps == {450, TickStep}

outside_window ==
    <<enable_caching, enable_quality_assessment, metrics, redis, cache_stats, pc, symbol,
      force_refresh, preferred_source, sources_to_try, idx, source, stock_data, result,
      written, trace, pre, batch_vars, rate_vars, cache_log, quality_vars, health_pc,
      health_status, alpha_vars>>

(* _check_rate_limit(source) is called: lines 380-399 *)
rate_limit_checked(src) ==
    /\ LET chk == _check_rate_limit(rate_limits, src, now)
       IN  /\ rate_limits' = chk.rate_limits
           /\ applied' = <<[op |-> "_check_rate_limit", source |-> src, at |-> now,
                            before |-> rate_limits, after |-> chk.rate_limits,
                            allowed |-> chk.allowed]>>
    /\ UNCHANGED <<now, calls, ticks, outside_window>>

(* _update_rate_limit(source) is called: lines 401-409 *)
rate_limit_updated(src) ==
    /\ calls < MaxWindowUpdates
    /\ calls' = calls + 1
    /\ rate_limits' = _update_rate_limit(rate_limits, src)
    /\ UNCHANGED <<now, applied, ticks, outside_window>>

(* datetime.now() moves on *)
clock_advanced(d) ==
    /\ ticks < MaxWindowTicks
    /\ ticks' = ticks + 1
    /\ now' = now + d
    /\ UNCHANGED <<rate_limits, applied, calls, outside_window>>

NextWindow ==
    \/ \E src \in DataSource : rate_limit_checked(src)
    \/ \E src \in DataSource : rate_limit_updated(src)
    \/ \E d \in ClockSteps : clock_advanced(d)

SpecWindow == InitRate /\ [][NextWindow]_vars

(* C31: a _check_rate_limit call made at a time later than the source's
   reset_time sets that source's counter to 0 and its reset_time one period
   (3600 s for Yahoo Finance, 86400 s for Alpha Vantage) after the time of
   the call, which is later than now; a call made at or before reset_time
   leaves the counter and reset_time as they were; and no check changes the
   budget of another source. *)
ConfiguredPeriod == [yahoo_finance |-> 3600, alpha_vantage |-> 86400]

C31_WindowReset ==
    \A n \in DOMAIN applied :
        applied[n].op = "_check_rate_limit" =>
            LET e == applied[n]
            IN  /\ \A other \in RateLimited \ {e.source} : e.after[other] = e.before[other]
                /\ e.source \in RateLimited =>
                      IF e.at > e.before[e.source].reset_time
                      THEN /\ e.after[e.source].requests_made = 0
                           /\ e.after[e.source].reset_time
                                 = e.at + ConfiguredPeriod[e.source]
                           /\ e.after[e.source].reset_time > e.at
                           /\ e.after[e.source].requests_limit
                                 = e.before[e.source].requests_limit
                      ELSE e.after[e.source] = e.before[e.source]

C31_Witness ==
    /\ Len(applied) = 1
    /\ applied[1].op = "_check_rate_limit"
    /\ applied[1].source = ALPHA_VANTAGE
    /\ applied[1].at > applied[1].before[ALPHA_VANTAGE].reset_time
    /\ applied[1].before[ALPHA_VANTAGE].requests_made > 0
    /\ applied[1].after[ALPHA_VANTAGE].requests_made = 0
    /\ applied[1].before[YAHOO_FINANCE].requests_made > 0
    /\ applied[1].before[YAHOO_FINANCE].reset_time > applied[1].at

----------------------------------------------------------------------------
(* The retry loop of CacheService.get and CacheService.set *)

(* CacheService.__init__, line 33 *)
max_retries == 3

(* The moments at which a call contacts the store, in order: 0 is the first
   connect (made only when the service has no client yet), 2k-1 the k-th
   attempt of the operation, 2k the reconnect after the k-th attempt failed *)
StoreContacts == 0..(2 * max_retries - 1)

(* Whether the store answers at each of these moments *)
Availabilities == [StoreContacts -> BOOLEAN]

RECURSIVE SumSeq(_)
SumSeq(q) == IF q = <<>> THEN 0 ELSE Head(q) + SumSeq(Tail(q))

RECURSIVE Pow2(_)
Pow2(n) == IF n = 0 THEN 1 ELSE 2 * Pow2(n - 1)

(* The for loop of get (lines 113-135) and of set (lines 171-185), from the
   attempt numbered `attempt` (range(max_retries) counts from 0): a
   ConnectionError on an attempt that is not the last is followed by
   asyncio.sleep(2 ** attempt) and connect(), inside the except clause;
   connect() pings the store and re-raises when that fails (lines 70-88), and
   an exception raised in the except clause leaves the loop, as does the
   bare raise after the last attempt *)
RECURSIVE retry_loop(_, _, _)
retry_loop(attempt, ups, slept) ==
    IF ups[2 * attempt + 1]
    THEN [completed |-> TRUE, attempts |-> attempt + 1, slept |-> slept]
    ELSE IF attempt < max_retries - 1
    THEN IF ups[2 * attempt + 2]
         THEN retry_loop(attempt + 1, ups, Append(slept, Pow2(attempt)))
         ELSE [completed |-> FALSE, attempts |-> attempt + 1,
               slept |-> Append(slept, Pow2(attempt))]
    ELSE [completed |-> FALSE, attempts |-> attempt + 1, slept |-> slept]

(* The body of get or set up to the end of the loop: lines 108-109 and
   162-163 connect first when there is no client *)
with_retries(connected, ups) ==
    IF ~connected /\ ~ups[0]
    THEN [completed |-> FALSE, attempts |-> 0, slept |-> <<>>]
    ELSE retry_loop(0, ups, <<>>)

(* CacheService.get with its retries: the attempt that got through is the
   get of the store; a failure that left the loop ends in the outer handler *)
get_with_retries(store, stats, key, data_type, connected, ups, t) ==
    LET tried == with_retries(connected, ups)
    IN  [tried |-> tried,
         got |-> CacheService_get(store, stats, key, data_type, tried.completed,
                                  t + SumSeq(tried.slept))]

(* CacheService.set with its retries *)
set_with_retries(store, stats, key, data, ttl, data_type, connected, ups, size, t) ==
    LET tried == with_retries(connected, ups)
    IN  [tried |-> tried,
         put |-> CacheService_set(store, stats, key, data, ttl, data_type,
                                  tried.completed, size, t + SumSeq(tried.slept))]

Retried(op, connected, ups, tried, returned, stats) ==
    [op |-> op, connected |-> connected, ups |-> ups, attempts |-> tried.attempts,
     slept |-> tried.slept, returned |-> returned, before |-> cache_stats,
     after |-> stats]

MaxRetriedCalls == 2

(* The calls made so far: each adds one to exactly one counter *)
RetriedCalls ==
    cache_stats.hits + cache_stats.misses + cache_stats.sets + cache_stats.errors

outside_retry ==
    <<enable_caching, enable_quality_assessment, rate_limits, metrics, pc, symbol,
      force_refresh, preferred_source, sources_to_try, idx, source, stock_data, result,
      calls, ticks, trace, pre, batch_vars, rate_vars, cache_log, quality_vars, health_pc,
      health_status, alpha_vars>>

(* A call of CacheService.get *)
get_retried(key, connected, ups) ==
    /\ RetriedCalls < MaxRetriedCalls
    /\ LET call == get_with_retries(redis, cache_stats, key, "stock_data", connected, ups,
                                    now)
       IN  /\ cache_stats' = call.got.stats
           /\ applied' = <<Retried("get", connected, ups, call.tried, call.got.value,
                                   call.got.stats)>>
    /\ UNCHANGED <<now, redis, written, outside_retry>>

(* A call of CacheService.set *)
set_retried(key, data, connected, ups) ==
    /\ RetriedCalls < MaxRetriedCalls
    /\ LET call == set_with_retries(redis, cache_stats, key, data, 0, "stock_data",
                                    connected, ups, 1025, now)
       IN  /\ redis' = call.put.redis
           /\ cache_stats' = call.put.stats
           /\ written' = IF call.put.ok
                         THEN [written EXCEPT ![_build_key(key, "stock_data")] = data]
                         ELSE written
           /\ applied' = <<Retried("set", connected, ups, call.tried,
                                   [kind |-> "bool", v |-> call.put.ok], call.put.stats)>>
    /\ UNCHANGED <<now, outside_retry>>

NextRetry ==
    \/ \E key \in CacheKeys, connected \in BOOLEAN, ups \in Availabilities :
         get_retried(key, connected, ups)
    \/ \E key \in CacheKeys, data \in CacheValues, connected \in BOOLEAN,
          ups \in Availabilities : set_retried(key, data, connected, ups)

SpecRetry == InitCache /\ [][NextRetry]_vars

(* C32 as the specification states it: after a connection error on an
   attempt that is not the last the service backs off (1 s, then 2 s),
   reconnects and attempts again, so a call during which the store recovers
   before the third attempt ends as a call on a working store does (no error
   counted); no call makes more than max_retries attempts; and a call whose
   attempts all fail returns None (get) or False (set) with errors one
   higher.  The code's reconnect raises when the store is still down, which
   leaves the loop after the first attempt. *)
RecoveredBy(ups, k) == \A c \in StoreContacts : c >= 2 * k - 2 => ups[c]

Failed(e) ==
    /\ e.after.errors = e.before.errors + 1
    /\ e.returned = IF e.op = "get" THEN None ELSE [kind |-> "bool", v |-> FALSE]

C32_RetriedUntilRecovered ==
    \A n \in DOMAIN applied :
        applied[n].op \in {"get", "set"} =>
            LET e == applied[n]
            IN  /\ e.attempts <= max_retries
                /\ (/\ e.connected \/ e.ups[0]
                    /\ \E k \in 1..max_retries : RecoveredBy(e.ups, k))
                      => /\ e.after.errors = e.before.errors
                         /\ e.slept \in {<<>>, <<1>>, <<1, 2>>}
                /\ (\A k \in 1..max_retries : ~e.ups[2 * k - 1]) => Failed(e)

----------------------------------------------------------------------------
(* The stored bytes of CacheService, by their first bytes: what _serialize
   writes in front of a payload and what _deserialize reads there *)

MaxCodecCalls == 2

(* b'COMPRESSED:', lines 497 and 517-518 *)
Marker == <<"C", "O", "M", "P", "R", "E", "S", "S", "E", "D", ":">>

(* The first bytes of the JSON text json.dumps gives for a dict, for a list,
   and for a string that itself begins with the marker's letters *)
JsonHeads ==
    {<<"{", "\"", "t", "e", "s", "t", "\"", ":", " ", "\"", "d", "a">>,
     <<"[", "1", ",", " ", "2", ",", " ", "3", ",", " ", "4", ",">>,
     <<"\"", "C", "O", "M", "P", "R", "E", "S", "S", "E", "D", ":">>}

(* Lengths in bytes of the JSON text *)
JsonLengths == {16, 1024, 1025, 5000}

(* Lengths in bytes of a pickle *)
PickleLengths == {100, 2000}

(* The values given to set: those json.dumps(data, default=str) encodes, by
   the text it gives, and those it rejects (a dict with tuple keys, a
   structure that contains itself), by the length of their pickle *)
CodecValues ==
    {[encodable |-> TRUE, head |-> h, len |-> n] : h \in JsonHeads, n \in JsonLengths}
    \cup {[encodable |-> FALSE, head |-> <<"\\x80">>, len |-> n] : n \in PickleLengths}

(* Bytes: their first bytes and what the rest encodes *)
Bytes(first, enc, len, of) == [first |-> first, enc |-> enc, len |-> len, of |-> of]

(* bytes.startswith *)
startswith(bytes, prefix) ==
    Len(bytes.first) >= Len(prefix) /\ SubSeq(bytes.first, 1, Len(prefix)) = prefix

(* CacheService._serialize, lines 475-503, on the bytes: the JSON text, with
   the marker and compressed when it is longer than the threshold; the pickle
   of the value when json.dumps raised *)
serialize_bytes(data) ==
    IF data.encodable
    THEN LET json_data == Bytes(data.head, "json", data.len, data)
         IN  IF json_data.len > compression_threshold
             THEN Bytes(Marker, "zlib", data.len, data)
             ELSE json_data
    ELSE Bytes(data.head, "pickle", data.len, data)

(* CacheService._deserialize, lines 505-532, on the bytes *)
deserialize_bytes(bytes) ==
    IF startswith(bytes, Marker)
    THEN IF bytes.enc = "zlib"
         THEN [raised |-> FALSE, decompressed |-> TRUE, value |-> bytes.of]
         ELSE [raised |-> TRUE, decompressed |-> TRUE, value |-> None]
    ELSE IF bytes.enc \in {"json", "pickle"}
         THEN [raised |-> FALSE, decompressed |-> FALSE, value |-> bytes.of]
         ELSE [raised |-> TRUE, decompressed |-> FALSE, value |-> None]

(* A value is serialized for the store and the stored bytes are decoded *)
payload_stored(data) ==
    /\ Len(applied) < MaxCodecCalls
    /\ LET stored == serialize_bytes(data)
       IN  applied' = Append(applied, [op |-> "_serialize", data |-> data,
                                       stored |-> stored,
                                       decoded |-> deserialize_bytes(stored)])
    /\ UNCHANGED outside_applied

NextCodec == \E data \in CodecValues : payload_stored(data)

SpecCodec == InitQuality /\ [][NextCodec]_vars

(* C33 as the specification states it: a payload is stored with the marker
   in front exactly when its serialized size is greater than 1024 bytes (one
   of exactly 1024 is stored raw); decoding decompresses exactly the payloads
   that carry the marker; and no raw payload is taken for a compressed one.
   A value json.dumps rejects is pickled and stored raw whatever its size. *)
C33_MarkerIffLarge ==
    \A n \in DOMAIN applied :
        applied[n].op = "_serialize" =>
            LET e == applied[n]
            IN  /\ startswith(e.stored, Marker) <=> e.data.len > 1024
                /\ e.decoded.decompressed <=> startswith(e.stored, Marker)
                /\ ~e.decoded.raised /\ e.decoded.value = e.data

----------------------------------------------------------------------------
(* C34 as the specification states it: the historical-price part of the
   accuracy score is the share of valid points among those examined (the
   first 30 at most), so a record that holds nothing but historical points,
   all of them valid, has an accuracy score of 100 however many points it
   holds.  The code divides the valid ones among the first 30 by the length
   of the whole list. *)
OnlyHistory(d) ==
    /\ ~truthy(d.company_info) /\ ~truthy(d.current_price)
    /\ d.financial_statements.count = 0
    /\ d.historical_prices.count > 0

Examined(h) == IF h.count > 30 THEN 30 ELSE h.count

C34_AverageOverExamined ==
    (/\ Reported
     /\ OnlyHistory(assessed)
     /\ "accuracy" \notin assessed.failing
     /\ assessed.historical_prices.valid = Examined(assessed.historical_prices))
        => quality_report.accuracy_score = 10000

----------------------------------------------------------------------------
(* The assessor on records that hold statements at given intervals *)

(* Mean gaps in days between the period ends of consecutive statements: the
   ends of the three bands of lines 433-438, the days next to them, and days
   inside and outside *)
StatementIntervals ==
    {30, 79, 80, 90, 100, 101, 159, 160, 180, 200, 201, 349, 350, 365, 380, 381, 500}

(* A record that holds two statements of one symbol, some company
   information or none, and no prices is handed to the assessor *)
quality_given_statements(company, interval, components, valid, age_days) ==
    /\ assessed = None
    /\ assessed' = [MeasuredEmpty EXCEPT
                      !.company_info = company,
                      !.financial_statements =
                          [count |-> 2, recent |-> IF age_days <= 730 THEN 2 ELSE 0,
                           components |-> components, valid |-> valid,
                           age_days |-> age_days, interval |-> interval]]
    /\ UNCHANGED <<quality_report, quality_issues, priced, outside_quality>>

NextIntervals ==
    \/ \E company \in Companies, interval \in StatementIntervals,
          components \in {0, 6}, valid \in {0, 2}, age_days \in {90, 800} :
          quality_given_statements(company, interval, components, valid, age_days)
    \/ quality_assessed

SpecIntervals == InitQuality /\ [][NextIntervals]_vars

(* What the consistency score of such a record comes to when the statement
   intervals are given the credit: the mean of 100 for the one symbol and of
   the credit, in hundredths *)
WithCredit(credit) == (100 + credit) * 50

TwoStatements ==
    /\ Reported
    /\ assessed.financial_statements.count = 2
    /\ assessed.historical_prices.count = 0
    /\ assessed.symbol_count = 1
    /\ "consistency" \notin assessed.failing

Quarterly(iv) == 80 <= iv /\ iv <= 100
Annual(iv) == 350 <= iv /\ iv <= 380
SemiAnnual(iv) == 160 <= iv /\ iv <= 200

(* C35 as the specification states it: a quarterly, an annual and a
   semi-annual mean interval each receive the full credit of 100, any other
   70 with an issue appended. *)
C35_FullCreditForRegular ==
    TwoStatements =>
        LET iv == assessed.financial_statements.interval
        IN  /\ (Quarterly(iv) \/ Annual(iv) \/ SemiAnnual(iv))
                  => quality_report.consistency_score = WithCredit(100)
            /\ ~(Quarterly(iv) \/ Annual(iv) \/ SemiAnnual(iv))
                  => /\ quality_report.consistency_score = WithCredit(70)
                     /\ "Irregular financial statement intervals" \in quality_issues

(* C35, amended: a quarterly (80-100 days) or annual (350-380 days) mean
   interval receives the credit of 100, a semi-annual one (160-200 days) 90,
   none of them with an issue; any other mean interval receives 70 with the
   issue appended. *)
C35_CreditByInterval ==
    TwoStatements =>
        LET iv == assessed.financial_statements.interval
            credit == IF Quarterly(iv) \/ Annual(iv) THEN 100
                      ELSE IF SemiAnnual(iv) THEN 90 ELSE 70
        IN  /\ quality_report.consistency_score = WithCredit(credit)
            /\ "Irregular financial statement intervals" \in quality_issues
                  <=> credit = 70

C35_Witness ==
    /\ TwoStatements
    /\ assessed.financial_statements.interval = 180
    /\ quality_report.consistency_score = 9500
    /\ quality_issues = {}

----------------------------------------------------------------------------
(* The Alpha Vantage adapter: one AlphaVantageClient shared by the operations
   of a DataService, each of which enters the client as a context manager,
   makes its requests one after the other and leaves the context.  A
   coroutine runs without interruption from one suspension to the next: the
   suspensions are the awaited session.get and the awaited sleeps. *)

MaxAlphaOps == 2
MaxAlphaRequests == 1
MaxAlphaTicks == 3

(* AlphaVantageClient.__init__, lines 30 and 46-47 *)
alpha_max_retries == 3
requests_per_minute == 5
requests_per_day == 500

(* Seconds: the windows of _check_rate_limits (lines 132 and 142), the waits
   of _make_request (lines 76 and 101) and the pause between the requests of
   get_comprehensive_data (line 453) *)
DayWindow == 86400
MinuteWindow == 60
RateLimitWait == 60
NoteWait == 60
RequestPause == 12

(* How an awaited session.get with what follows it in the try block can come
   out: the JSON of a result, of an API error ("Error Message"), of a notice
   ("Note"); a status raise_for_status rejects; a failure of the transport;
   a body that is no JSON *)
ResponseOutcomes == {"data", "error_message", "note", "http_status", "transport", "bad_json"}

(* Outcomes in which raise_for_status passed, so that line 89 recorded the
   request *)
Recorded == {"data", "error_message", "note", "bad_json"}

(* The client's state *)
Client(stamps, current, all, log) ==
    [request_timestamps |-> stamps, session |-> current, sessions |-> all, sent |-> log]

(* AlphaVantageClient._check_rate_limits, lines 120-152 *)
_check_rate_limits(stamps, t) ==
    LET kept == SelectSeq(stamps, LAMBDA ts : t - ts < DayWindow)
        recent_requests == SelectSeq(kept, LAMBDA ts : ts > t - MinuteWindow)
    IN  [request_timestamps |-> kept,
         within |-> /\ Len(kept) < requests_per_day
                    /\ Len(recent_requests) < requests_per_minute]

(* The coroutine is suspended in a sleep *)
asleep(r, why, seconds, t) ==
    [r EXCEPT !.pc = "sleep", !.why = why, !.wake = t + seconds,
              !.slept = Append(@, seconds)]

(* Lines 80-85: the coroutine calls session.get on the client's session, as
   it is now, and is suspended in it.  A closed session sends nothing. *)
session_get(r, c, t) ==
    [r |-> [r EXCEPT !.pc = "get", !.used = c.session],
     c |-> [c EXCEPT !.sent = Append(@, [at |-> t, by |-> r.own, session |-> c.session,
                                         open |-> c.sessions[c.session] = "open"])]]

(* __aexit__, lines 55-58: the client's session, whichever it is, is closed *)
aexit(c) == [c EXCEPT !.sessions[c.session] = "closed"]

(* _make_request from its start to its first suspension: lines 70-85 *)
make_request_begin(r, c, t) ==
    LET chk == _check_rate_limits(c.request_timestamps, t)
        r0 == [r EXCEPT !.attempt = 0, !.outcomes = <<>>, !.slept = <<>>]
        c0 == [c EXCEPT !.request_timestamps = chk.request_timestamps]
    IN  IF chk.within THEN session_get(r0, c0, t)
        ELSE [r |-> asleep(r0, "limit", RateLimitWait, t), c |-> c0]

(* _make_request returns, and its caller runs on to the next suspension: the
   pause before the next request (line 453) or, after the last request, the
   exit of the context manager and the end of the operation *)
make_request_returns(r, c, t, value) ==
    LET r1 == [r EXCEPT !.left = @ - 1,
                        !.returned = Append(@, [value |-> value, outcomes |-> r.outcomes,
                                                slept |-> r.slept])]
    IN  IF r1.left > 0
        THEN [r |-> asleep([r1 EXCEPT !.slept = <<>>], "pause", RequestPause, t), c |-> c]
        ELSE [r |-> [r1 EXCEPT !.pc = "done"], c |-> aexit(c)]

make_request_retrying_errors(attempt, outcome) ==
    IF outcome = "data" THEN "return data"
    ELSE IF outcome = "note" THEN "wait"
    ELSE IF attempt < alpha_max_retries - 1 THEN "back off"
    ELSE "give up"

(* What the loop body does with the outcome of the attempt numbered
   `attempt` (from 0): lines 93-115 *)
make_request_after(attempt, outcome) ==
    IF outcome = "data" THEN "return data"
    ELSE IF outcome = "error_message" THEN "return None"
    ELSE IF outcome = "note" THEN "wait"
    ELSE IF attempt < alpha_max_retries - 1 THEN "back off"
    ELSE "give up"

(* The awaited session.get is over: lines 85-115 up to the next suspension *)
make_request_response(r, c, t, outcome) ==
    LET c1 == IF outcome \in Recorded
              THEN [c EXCEPT !.request_timestamps = Append(@, t)] ELSE c
        r1 == [r EXCEPT !.outcomes = Append(@, outcome)]
        todo == make_request_after(r.attempt, outcome)
    IN  CASE todo = "return data" -> make_request_returns(r1, c1, t, "data")
          [] todo = "return None" -> make_request_returns(r1, c1, t, "None")
          [] todo = "wait" -> [r |-> asleep(r1, "note", NoteWait, t), c |-> c1]
          [] todo = "back off" -> [r |-> asleep(r1, "backoff", Pow2(r.attempt), t), c |-> c1]
          [] todo = "give up" -> make_request_returns(r1, c1, t, "None")

(* A sleep is over: the coroutine runs on to its next suspension *)
make_request_resumed(r, c, t) ==
    CASE r.why = "limit" -> session_get(r, c, t)
      [] r.why = "pause" -> make_request_begin(r, c, t)
      [] r.why \in {"note", "backoff"} ->
            IF r.attempt + 1 < alpha_max_retries
            THEN session_get([r EXCEPT !.attempt = @ + 1], c, t)
            ELSE make_request_returns(r, c, t, "None")

TheClient == Client(request_timestamps, session, sessions, sent)

outside_alpha ==
    <<enable_caching, enable_quality_assessment, rate_limits, metrics, redis, cache_stats,
      pc, symbol, force_refresh, preferred_source, sources_to_try, idx, source,
      stock_data, result, calls, written, trace, pre, batch_vars, rate_vars, cache_log,
      quality_vars, probe_vars>>

becomes(p, go) ==
    /\ alpha_ops' = IF p > Len(alpha_ops) THEN Append(alpha_ops, go.r)
                    ELSE [alpha_ops EXCEPT ![p] = go.r]
    /\ request_timestamps' = go.c.request_timestamps
    /\ session' = go.c.session
    /\ sessions' = go.c.sessions
    /\ sent' = go.c.sent

(* An operation enters the client (__aenter__, lines 50-53: a new session
   takes the place of the client's) and starts its first request *)
alpha_operation_started(requests) ==
    /\ Len(alpha_ops) < MaxAlphaOps
    /\ LET own == Len(sessions) + 1
           entered == [TheClient EXCEPT !.session = own,
                                        !.sessions = Append(@, "open")]
           r == [pc |-> "entered", own |-> own, used |-> 0, left |-> requests,
                 attempt |-> 0, outcomes |-> <<>>, slept |-> <<>>, why |-> "",
                 wake |-> 0, returned |-> <<>>]
       IN  becomes(Len(alpha_ops) + 1, make_request_begin(r, entered, now))
    /\ UNCHANGED <<now, ticks, outside_alpha>>

(* The awaited session.get of an operation is over.  On a closed session it
   raised at once (the transport's RuntimeError). *)
alpha_response(p, outcome) ==
    /\ alpha_ops[p].pc = "get"
    /\ sessions[alpha_ops[p].used] = "closed" => outcome = "transport"
    /\ becomes(p, make_request_response(alpha_ops[p], TheClient, now, outcome))
    /\ UNCHANGED <<now, ticks, outside_alpha>>

(* The sleep of an operation is over *)
alpha_resumed(p) ==
    /\ alpha_ops[p].pc = "sleep"
    /\ now >= alpha_ops[p].wake
    /\ becomes(p, make_request_resumed(alpha_ops[p], TheClient, now))
    /\ UNCHANGED <<now, ticks, outside_alpha>>

Sleepers == {p \in DOMAIN alpha_ops : alpha_ops[p].pc = "sleep" /\ alpha_ops[p].wake > now}

(* Time passes up to the end of the next sleep *)
alpha_time_passes ==
    /\ ticks < MaxAlphaTicks
    /\ \E p \in Sleepers :
         /\ \A q \in Sleepers : alpha_ops[p].wake <= alpha_ops[q].wake
         /\ now' = alpha_ops[p].wake
    /\ ticks' = ticks + 1
    /\ UNCHANGED <<alpha_vars, outside_alpha>>

NextAlpha ==
    \/ \E requests \in 1..MaxAlphaRequests : alpha_operation_started(requests)
    \/ \E p \in DOMAIN alpha_ops, outcome \in ResponseOutcomes : alpha_response(p, outcome)
    \/ \E p \in DOMAIN alpha_ops : alpha_resumed(p)
    \/ alpha_time_passes

SpecAlpha == InitQuality /\ [][NextAlpha]_vars

(* One operation on the client, alone *)
NextRequest ==
    \/ \E requests \in 1..MaxAlphaRequests :
         alpha_ops = <<>> /\ alpha_operation_started(requests)
    \/ \E p \in DOMAIN alpha_ops, outcome \in ResponseOutcomes : alpha_response(p, outcome)
    \/ \E p \in DOMAIN alpha_ops : alpha_resumed(p)
    \/ alpha_time_passes

SpecRequest == InitQuality /\ [][NextRequest]_vars

(* C36: a _make_request call makes at most max_retries (3) HTTP attempts and
   returns the data or None; after a failed attempt that is not the last it
   sleeps 1 s, then 2 s; a response with "Error Message" ends the call at
   once with None; when the attempts are used up it returns None. *)
Failures3 == {"http_status", "transport", "bad_json"}

RECURSIVE SleepsAfter(_, _)
SleepsAfter(outcomes, n) ==
    IF n > Len(outcomes) THEN <<>>
    ELSE (IF outcomes[n] = "note" THEN <<60>>
          ELSE IF outcomes[n] \in Failures3 /\ n < 3 THEN <<Pow2(n - 1)>>
          ELSE <<>>) \o SleepsAfter(outcomes, n + 1)

C36_BoundedAttempts ==
    \A p \in DOMAIN alpha_ops :
        /\ alpha_ops[p].attempt < 3
        /\ Len(alpha_ops[p].outcomes) <= alpha_ops[p].attempt + 1
        /\ \A n \in DOMAIN alpha_ops[p].returned :
              LET e == alpha_ops[p].returned[n]
                  last == e.outcomes[Len(e.outcomes)]
              IN  /\ Len(e.outcomes) \in 1..3
                  /\ e.value \in {"data", "None"}
                  /\ e.value = "data" <=> last = "data"
                  /\ \A i \in DOMAIN e.outcomes :
                        e.outcomes[i] \in {"data", "error_message"} => i = Len(e.outcomes)
                  /\ last = "error_message" => e.value = "None"
                  /\ (Len(e.outcomes) = 3 /\ last # "data") => e.value = "None"
                  /\ e.slept \in {SleepsAfter(e.outcomes, 1),
                                  <<60>> \o SleepsAfter(e.outcomes, 1)}

C36_Witness ==
    /\ Len(alpha_ops) = 1
    /\ alpha_ops[1].pc = "done"
    /\ alpha_ops[1].returned =
          <<[value |-> "None", outcomes |-> <<"transport", "bad_json", "http_status">>,
             slept |-> <<1, 2>>]>>

(* C37 as the specification states it: no HTTP request is sent at a moment
   when 5 or more requests of the client fall within the preceding 60
   seconds, or 500 or more within the preceding 24 hours.  The code checks
   once per _make_request call, before the first attempt only, and the check
   of one coroutine knows nothing of requests another has in flight. *)
SentBefore(i, window) ==
    {j \in 1..(i - 1) : sent[j].open /\ sent[i].at - sent[j].at < window}

C37_WithinBudget ==
    \A i \in DOMAIN sent :
        sent[i].open =>
            /\ Cardinality(SentBefore(i, 60)) < 5
            /\ Cardinality(SentBefore(i, 86400)) < 500

(* C38 as the specification states it: while an operation still has requests
   to issue, the client's session is the one the operation opened on entry,
   and it is open; and once every operation has ended, every session that
   was opened is closed.  The operations share one client, whose session
   each entry replaces and each exit closes. *)
C38_SessionPerOperation ==
    /\ \A p \in DOMAIN alpha_ops :
          alpha_ops[p].pc # "done" =>
              /\ session = alpha_ops[p].own
              /\ sessions[alpha_ops[p].own] = "open"
    /\ (alpha_ops # <<>> /\ \A p \in DOMAIN alpha_ops : alpha_ops[p].pc = "done")
          => \A id \in DOMAIN sessions : sessions[id] = "closed"

----------------------------------------------------------------------------
(* The batch under the scheduling of the event loop: a task that waits for a
   slot while one is free gets it (asyncio.Semaphore wakes its waiters in
   turn and the loop runs every ready task), every lookup under way comes to
   an end (the premise of the claim), and gather returns once every task has
   ended.  Cancellation from outside may or may not happen. *)
BatchFairness ==
    /\ \A i \in 1..MaxBatch :
          /\ WF_vars(i \in DOMAIN tasks /\ get_single_stock_acquire(i))
          /\ WF_vars(\E outcome \in LookupOutcomes :
                        i \in DOMAIN tasks /\ get_single_stock_return(i, outcome))
    /\ WF_vars(batch_get_stock_data_finish)

SpecBatchFair == InitBatch /\ [][NextBatch]_vars /\ BatchFairness

(* C39: for every list of symbols and every max_concurrent >= 1, a batch
   that was called returns; and every task that waits for a slot of the
   semaphore comes to hold one and run its lookup, unless it is cancelled
   first. *)
C39_BatchTerminates ==
    /\ (batch_pc = "gather") ~> (batch_pc = "done")
    /\ \A i \in 1..MaxBatch :
          (i \in DOMAIN tasks /\ tasks[i].state = "pending")
             ~> (i \in DOMAIN tasks /\ tasks[i].state # "pending")

C39_Witness ==
    /\ batch_pc = "done"
    /\ max_concurrent = 1
    /\ Len(tasks) = MaxBatch
    /\ \A i \in DOMAIN tasks : tasks[i].state = "returned"

====
